---- MODULE Spec2Model ----
(***************************************************************************)
(* Map file validation and its command-line entry point                    *)
(* (frontend/validate_map.py), the Lambda-level filename validator and     *)
(* the upload handler (infra/lambda/input_handler/handler.py), and the     *)
(* processor task (infra/ecs_processor/processor.py).                      *)
(*                                                                         *)
(* Strings are sequences of one-character strings, so that indexing,       *)
(* slicing and regular-expression matching are computed as the code        *)
(* computes them.  Python's None is the value None below.                  *)
(***************************************************************************)
EXTENDS Integers, Sequences, FiniteSets, TLC

VARIABLES
    filename,       \* the filename under test (original_filename)
    sheetResult,    \* last return value of get_sheet_number_from_filename
    diagResult,     \* last return value of get_filename_validation_error
    lambdaResult,   \* last return value of validate_filename (Lambda)
    img_file,       \* path of the image whose dimensions are read
    jpgBytes,       \* content of the image file
    jpgPos,         \* position of the file object f
    scan,           \* where get_image_dimensions stands
    dims,           \* (width, height) it returned
    dimError,       \* message of the ValueError it raised
    archive,        \* the file at zip_path and what it holds
    pc,             \* where validate_map_file stands
    result,         \* the result dict of validate_map_file
    temp_dir,       \* whether the temporary extraction directory exists
    transform,      \* the tuple read_world_file returned
    exc,            \* the exception raised inside the outer try, if any
    argv,           \* sys.argv of the command-line entry point
    path_exists,    \* whether zip_path exists
    exit_code,      \* the status main exited with, -1 while it runs
    stdout,         \* what main printed
    uploads,        \* map_name of each uploaded file of the batch
    events,         \* the S3 events: per input_handler invocation, its records
    job,            \* the item of the jobs table under the batch's jobId
    maps,           \* the item of the maps table of each file
    hpc,            \* where each input_handler invocation stands
    hidx,           \* the record each invocation is at
    ecs_launched,   \* the local ecs_launched of each invocation
    records,        \* the records list each invocation has built
    created,        \* what create_or_get_job returned for each file
    ecs_tasks,      \* number of ECS tasks started for each file
    fallback_invocations, \* number of fallback Lambda invocations for each file
    tpc,            \* where the processor task of each file stands
    attrs,          \* the ALL_NEW attributes each task's increment returned
    final_status,   \* the local final_status of each task
    increments,     \* the counter increments each task has made so far
    outputs,        \* the output object of each file and its S3 event
    fpc,            \* where the fallback Lambda invocation of each file stands
    map_item,       \* the item of the maps table under one (mapId, mapName)
    upc,            \* where the input_handler pass of each upload of that map stands
    via,            \* how create_map_entry wrote the item for each upload
    mjob,           \* the status of the job of each upload
    mtpc,           \* where the processor task of each upload stands
    last_event      \* the state-change event ecs_state_handler handled in the step just taken

fnVars == <<filename, sheetResult, diagResult, lambdaResult>>
jpgVars == <<img_file, jpgBytes, jpgPos, scan, dims, dimError>>
valVars == <<archive, pc, result, temp_dir, transform, exc>>
mainVars == <<argv, path_exists, exit_code, stdout>>
batchVars == <<uploads, events, job, maps, hpc, hidx, ecs_launched, records,
               created, ecs_tasks, fallback_invocations, tpc, attrs, final_status>>
pipeVars == <<increments, outputs, fpc>>
mapItemVars == <<map_item, upc, via, mjob, mtpc, last_event>>
otherVars == <<mainVars, batchVars, pipeVars, mapItemVars>>
vars == <<fnVars, jpgVars, valVars, otherVars>>

-----------------------------------------------------------------------------
(* Characters and Python string helpers                                    *)

None == <<"None">>
Unset == <<"unset">>

DigitChars == {"0", "1", "2", "3", "4", "5", "6", "7", "8", "9"}
LowerChars == {"a", "b", "c", "d", "e", "f", "g", "h", "i", "j", "k", "l", "m",
               "n", "o", "p", "q", "r", "s", "t", "u", "v", "w", "x", "y", "z"}
UpperChars == {"A", "B", "C", "D", "E", "F", "G", "H", "I", "J", "K", "L", "M",
               "N", "O", "P", "Q", "R", "S", "T", "U", "V", "W", "X", "Y", "Z"}
\* \s of Python's re for the characters the model uses
SpaceChars == {" ", "\t", "\n", "\r", "\f"}

IsDigit(c) == c \in DigitChars
IsAlnum(c) == c \in DigitChars \cup LowerChars \cup UpperChars
\* the character class [-\s_]
IsSep(c) == c = "-" \/ c = "_" \/ c \in SpaceChars

\* s[i:] of Python for a 1-based i
From(s, i) == SubSeq(s, i, Len(s))

\* '$' of Python's re (no MULTILINE) at the position before s[i]:
\* the end of the string, or just before a newline that ends the string
AtDollar(s, i) == i = Len(s) + 1 \/ (i = Len(s) /\ s[i] = "\n")

\* all characters of s[i..j] are digits (and the range lies in s)
DigitsAt(s, i, j) == j <= Len(s) /\ \A k \in i..j : IsDigit(s[k])

\* all strings over an alphabet, up to a length
RECURSIVE StringsUpTo(_, _)
StringsUpTo(alphabet, n) ==
    IF n = 0 THEN {<<>>}
    ELSE LET shorter == StringsUpTo(alphabet, n - 1)
         IN  shorter \cup {Append(s, c) : s \in shorter, c \in alphabet}

\* re.sub(r'\D', '', s)
RECURSIVE OnlyDigits(_)
OnlyDigits(s) ==
    IF s = <<>> THEN <<>>
    ELSE IF IsDigit(Head(s)) THEN <<Head(s)>> \o OnlyDigits(Tail(s))
    ELSE OnlyDigits(Tail(s))

\* s.strip() == ''
IsBlank(s) == \A k \in 1..Len(s) : s[k] \in SpaceChars

\* re.match(r'^[a-zA-Z0-9]+$', s)
MatchAlnum(s) ==
    \E n \in 1..Len(s) :
        /\ \A k \in 1..n : IsAlnum(s[k])
        /\ AtDollar(s, n + 1)

\* filename.rsplit('.', 1)[0]
RSplitDot(s) ==
    LET dots == {k \in 1..Len(s) : s[k] = "."}
    IN  IF dots = {} THEN s
        ELSE SubSeq(s, 1, (CHOOSE k \in dots : \A m \in dots : m <= k) - 1)

-----------------------------------------------------------------------------
(* The sheet number pattern                                                *)
(*   (?<!\d)(\d{2}[-\s_]\d{4}|\d{6})(?=[-\s_]|$)                           *)

\* the lookahead (?=[-\s_]|$) before s[i]
LookaheadSepOrEnd(s, i) == (i <= Len(s) /\ IsSep(s[i])) \/ AtDollar(s, i)

\* length of the match that starts at s[i], 0 when there is none; the
\* alternatives are tried in the order the pattern gives them
PatternLenAt(s, i) ==
    IF i > 1 /\ IsDigit(s[i - 1]) THEN 0
    ELSE IF /\ DigitsAt(s, i, i + 1)
            /\ i + 2 <= Len(s) /\ IsSep(s[i + 2])
            /\ DigitsAt(s, i + 3, i + 6)
            /\ LookaheadSepOrEnd(s, i + 7) THEN 7
    ELSE IF DigitsAt(s, i, i + 5) /\ LookaheadSepOrEnd(s, i + 6) THEN 6
    ELSE 0

\* a search that keeps the rightmost match instead of the leftmost
PatternSearch_rightmost(s) ==
    LET starts == {i \in 1..Len(s) : PatternLenAt(s, i) > 0}
    IN  IF starts = {} THEN 0
        ELSE CHOOSE i \in starts : \A j \in starts : j <= i

\* re.search: the start of the leftmost match, 0 when there is none
PatternSearch(s) ==
    LET starts == {i \in 1..Len(s) : PatternLenAt(s, i) > 0}
    IN  IF starts = {} THEN 0
        ELSE CHOOSE i \in starts : \A j \in starts : i <= j

-----------------------------------------------------------------------------
(* frontend/validate_map.py: get_sheet_number_from_filename                *)

get_sheet_number_from_filename(name) ==
    LET name_without_ext == RSplitDot(name)
        start == PatternSearch(name_without_ext)
        sheet_number_raw ==
            SubSeq(name_without_ext, start,
                   start + PatternLenAt(name_without_ext, start) - 1)
        sheet_number == OnlyDigits(sheet_number_raw)
        seam_id == SubSeq(name_without_ext, 1, start - 1)
        seam_id_clean == SubSeq(seam_id, 1, Len(seam_id) - 1)
    IN  IF "_" \notin {name_without_ext[k] : k \in 1..Len(name_without_ext)}
            THEN None
        ELSE IF start = 0 THEN None
        ELSE IF seam_id = <<>> \/ seam_id[Len(seam_id)] # "_" THEN None
        ELSE IF seam_id_clean = <<>> \/ IsBlank(seam_id_clean) THEN None
        ELSE IF ~MatchAlnum(seam_id_clean) THEN None
        ELSE sheet_number

-----------------------------------------------------------------------------
(* frontend/validate_map.py: get_filename_validation_error                 *)
(* A message is its fixed leading text, the number it embeds and the       *)
(* string it embeds.                                                       *)

\* b holds the bounds a message reports
MsgB(kind, n, s, b) == [kind |-> kind, n |-> n, s |-> s, b |-> b]
Msg(kind, n, s) == MsgB(kind, n, s, <<>>)
NoMsg == Msg("None", 0, <<>>)
UnsetMsg == Msg("unset", 0, <<>>)

\* the digit-count branches with "<= 6" written for "< 6"
get_filename_validation_error_le6(name) ==
    LET name_without_ext == RSplitDot(name)
        start == PatternSearch(name_without_ext)
        all_digits == OnlyDigits(name_without_ext)
        seam_id == SubSeq(name_without_ext, 1, start - 1)
        seam_id_clean == SubSeq(seam_id, 1, Len(seam_id) - 1)
    IN  IF "_" \notin {name_without_ext[k] : k \in 1..Len(name_without_ext)}
            THEN Msg("Missing mandatory underscore separator.", 0, <<>>)
        ELSE IF start = 0 THEN
            IF Len(all_digits) = 0
                THEN Msg("No digits found.", 0, <<>>)
            ELSE IF Len(all_digits) <= 6
                THEN Msg("Sheet number must be exactly 6 digits, found N digits.",
                         Len(all_digits), <<>>)
            ELSE Msg("Found N digits but sheet number format is incorrect.",
                     Len(all_digits), <<>>)
        ELSE IF seam_id = <<>> \/ seam_id[Len(seam_id)] # "_"
            THEN Msg("Missing mandatory seam ID before sheet number.", 0, <<>>)
        ELSE IF seam_id_clean = <<>> \/ IsBlank(seam_id_clean)
            THEN Msg("Missing mandatory seam ID before underscore.", 0, <<>>)
        ELSE IF ~MatchAlnum(seam_id_clean)
            THEN Msg("Invalid seam ID.", 0, seam_id_clean)
        ELSE Msg("Invalid filename format:", 0, name)

\* the seam checks with the alphanumeric test ahead of the emptiness test
get_filename_validation_error_alnumFirst(name) ==
    LET name_without_ext == RSplitDot(name)
        start == PatternSearch(name_without_ext)
        all_digits == OnlyDigits(name_without_ext)
        seam_id == SubSeq(name_without_ext, 1, start - 1)
        seam_id_clean == SubSeq(seam_id, 1, Len(seam_id) - 1)
    IN  IF "_" \notin {name_without_ext[k] : k \in 1..Len(name_without_ext)}
            THEN Msg("Missing mandatory underscore separator.", 0, <<>>)
        ELSE IF start = 0 THEN
            IF Len(all_digits) = 0
                THEN Msg("No digits found.", 0, <<>>)
            ELSE IF Len(all_digits) < 6
                THEN Msg("Sheet number must be exactly 6 digits, found N digits.",
                         Len(all_digits), <<>>)
            ELSE Msg("Found N digits but sheet number format is incorrect.",
                     Len(all_digits), <<>>)
        ELSE IF seam_id = <<>> \/ seam_id[Len(seam_id)] # "_"
            THEN Msg("Missing mandatory seam ID before sheet number.", 0, <<>>)
        ELSE IF ~MatchAlnum(seam_id_clean)
            THEN Msg("Invalid seam ID.", 0, seam_id_clean)
        ELSE IF seam_id_clean = <<>> \/ IsBlank(seam_id_clean)
            THEN Msg("Missing mandatory seam ID before underscore.", 0, <<>>)
        ELSE Msg("Invalid filename format:", 0, name)

\* the diagnostics without the alphanumeric check of the seam ID
get_filename_validation_error_noAlnumCheck(name) ==
    LET name_without_ext == RSplitDot(name)
        start == PatternSearch(name_without_ext)
        all_digits == OnlyDigits(name_without_ext)
        seam_id == SubSeq(name_without_ext, 1, start - 1)
        seam_id_clean == SubSeq(seam_id, 1, Len(seam_id) - 1)
    IN  IF "_" \notin {name_without_ext[k] : k \in 1..Len(name_without_ext)}
            THEN Msg("Missing mandatory underscore separator.", 0, <<>>)
        ELSE IF start = 0 THEN
            IF Len(all_digits) = 0
                THEN Msg("No digits found.", 0, <<>>)
            ELSE IF Len(all_digits) < 6
                THEN Msg("Sheet number must be exactly 6 digits, found N digits.",
                         Len(all_digits), <<>>)
            ELSE Msg("Found N digits but sheet number format is incorrect.",
                     Len(all_digits), <<>>)
        ELSE IF seam_id = <<>> \/ seam_id[Len(seam_id)] # "_"
            THEN Msg("Missing mandatory seam ID before sheet number.", 0, <<>>)
        ELSE IF seam_id_clean = <<>> \/ IsBlank(seam_id_clean)
            THEN Msg("Missing mandatory seam ID before underscore.", 0, <<>>)
        ELSE Msg("Invalid filename format:", 0, name)

get_filename_validation_error(name) ==
    LET name_without_ext == RSplitDot(name)
        start == PatternSearch(name_without_ext)
        all_digits == OnlyDigits(name_without_ext)
        seam_id == SubSeq(name_without_ext, 1, start - 1)
        seam_id_clean == SubSeq(seam_id, 1, Len(seam_id) - 1)
    IN  IF "_" \notin {name_without_ext[k] : k \in 1..Len(name_without_ext)}
            THEN Msg("Missing mandatory underscore separator.", 0, <<>>)
        ELSE IF start = 0 THEN
            IF Len(all_digits) = 0
                THEN Msg("No digits found.", 0, <<>>)
            ELSE IF Len(all_digits) < 6
                THEN Msg("Sheet number must be exactly 6 digits, found N digits.",
                         Len(all_digits), <<>>)
            ELSE Msg("Found N digits but sheet number format is incorrect.",
                     Len(all_digits), <<>>)
        ELSE IF seam_id = <<>> \/ seam_id[Len(seam_id)] # "_"
            THEN Msg("Missing mandatory seam ID before sheet number.", 0, <<>>)
        ELSE IF seam_id_clean = <<>> \/ IsBlank(seam_id_clean)
            THEN Msg("Missing mandatory seam ID before underscore.", 0, <<>>)
        ELSE IF ~MatchAlnum(seam_id_clean)
            THEN Msg("Invalid seam ID.", 0, seam_id_clean)
        ELSE Msg("Invalid filename format:", 0, name)

-----------------------------------------------------------------------------
(* infra/lambda/input_handler/handler.py: validate_filename                *)

LowerSeq == <<"a", "b", "c", "d", "e", "f", "g", "h", "i", "j", "k", "l", "m",
              "n", "o", "p", "q", "r", "s", "t", "u", "v", "w", "x", "y", "z">>
UpperSeq == <<"A", "B", "C", "D", "E", "F", "G", "H", "I", "J", "K", "L", "M",
              "N", "O", "P", "Q", "R", "S", "T", "U", "V", "W", "X", "Y", "Z">>

\* str.lower() on one character (re.IGNORECASE, suffix.lower())
LowerChar(c) ==
    IF c \in UpperChars
        THEN LowerSeq[CHOOSE k \in 1..Len(UpperSeq) : UpperSeq[k] = c]
        ELSE c

Lower(s) == [k \in 1..Len(s) |-> LowerChar(s[k])]

\* the alternatives of \.(zip|jpg|jpeg|tif|tiff)$
KnownExtensions ==
    {<<"z", "i", "p">>, <<"j", "p", "g">>, <<"j", "p", "e", "g">>,
     <<"t", "i", "f">>, <<"t", "i", "f", "f">>}

\* re.sub(r'\.(zip|jpg|jpeg|tif|tiff)$', '', s, flags=re.IGNORECASE)
StripKnownExtension(s) ==
    LET hits == {<<i, n>> \in (1..Len(s)) \X (3..4) :
                    /\ s[i] = "."
                    /\ i + n <= Len(s)
                    /\ Lower(SubSeq(s, i + 1, i + n)) \in KnownExtensions
                    /\ AtDollar(s, i + n + 1)}
    IN  IF hits = {} THEN s
        ELSE LET h == CHOOSE h \in hits : TRUE
             IN  SubSeq(s, 1, h[1] - 1) \o From(s, h[1] + h[2] + 1)

\* format 1 with '_' as its only separator
MatchFormat1_underscoreOnly(s) ==
    /\ DigitsAt(s, 1, 2)
    /\ 3 <= Len(s) /\ s[3] = "_"
    /\ DigitsAt(s, 4, 7)
    /\ LookaheadSepOrEnd(s, 8)

\* re.match(r'^(\d{2})[-\s_](\d{4})(?:[-\s_]|$)', s)
MatchFormat1(s) ==
    /\ DigitsAt(s, 1, 2)
    /\ 3 <= Len(s) /\ IsSep(s[3])
    /\ DigitsAt(s, 4, 7)
    /\ LookaheadSepOrEnd(s, 8)

\* re.match(r'^(\d{6})(?:[-\s_]|$)', s)
MatchFormat2(s) == DigitsAt(s, 1, 6) /\ LookaheadSepOrEnd(s, 7)

\* the returned tuple (is_valid, seam_id, sheet_number, error_message)
LambdaResult(ok, seam, sheet, err) ==
    [is_valid |-> ok, seam_id |-> seam, sheet_number |-> sheet, error |-> err]
UnsetLambda == LambdaResult(FALSE, <<>>, <<>>, UnsetMsg)

validate_filename(name) ==
    LET name_without_ext == StripKnownExtension(name)
        first_underscore_idx ==
            CHOOSE k \in 1..Len(name_without_ext) :
                /\ name_without_ext[k] = "_"
                /\ \A m \in 1..(k - 1) : name_without_ext[m] # "_"
        seam_id == SubSeq(name_without_ext, 1, first_underscore_idx - 1)
        after_seam_id == From(name_without_ext, first_underscore_idx + 1)
        all_digits == OnlyDigits(after_seam_id)
    IN  IF "_" \notin {name_without_ext[k] : k \in 1..Len(name_without_ext)}
            THEN LambdaResult(FALSE, <<>>, <<>>,
                     Msg("Missing mandatory underscore separator.", 0, <<>>))
        ELSE IF seam_id = <<>> \/ IsBlank(seam_id)
            THEN LambdaResult(FALSE, <<>>, <<>>,
                     Msg("Missing mandatory seam ID before underscore.", 0, <<>>))
        ELSE IF ~MatchAlnum(seam_id)
            THEN LambdaResult(FALSE, seam_id, <<>>,
                     Msg("Invalid seam ID.", 0, seam_id))
        ELSE IF after_seam_id = <<>> \/ IsBlank(after_seam_id)
            THEN LambdaResult(FALSE, seam_id, <<>>,
                     Msg("Missing sheet number after underscore.", 0, <<>>))
        ELSE IF MatchFormat1(after_seam_id)
            THEN LambdaResult(TRUE, seam_id,
                     SubSeq(after_seam_id, 1, 2) \o SubSeq(after_seam_id, 4, 7),
                     NoMsg)
        ELSE IF MatchFormat2(after_seam_id)
            THEN LambdaResult(TRUE, seam_id, SubSeq(after_seam_id, 1, 6), NoMsg)
        ELSE IF Len(all_digits) = 0
            THEN LambdaResult(FALSE, seam_id, <<>>,
                     Msg("No digits found in sheet number part.", 0, <<>>))
        ELSE IF Len(all_digits) < 6
            THEN LambdaResult(FALSE, seam_id, <<>>,
                     Msg("Sheet number must be exactly 6 digits, found N digits.",
                         Len(all_digits), <<>>))
        ELSE IF Len(all_digits) > 6
            THEN LambdaResult(FALSE, seam_id, <<>>,
                     Msg("Sheet number has too many digits (N).",
                         Len(all_digits), <<>>))
        ELSE LambdaResult(FALSE, seam_id, <<>>,
                     Msg("Sheet number format is incorrect.", 0, <<>>))

-----------------------------------------------------------------------------
(* frontend/validate_map.py: get_image_dimensions                          *)
(* The marker scan is modelled step by step: the SOI check, then one       *)
(* action for reading a marker and one for skipping a segment.             *)

\* f.read(n): the bytes from the position on, at most n
Read(bytes, pos, n) ==
    SubSeq(bytes, pos + 1, IF pos + n <= Len(bytes) THEN pos + n ELSE Len(bytes))

\* the bytes read least significant first
RECURSIVE FromBytesBig_little(_)
FromBytesBig_little(bs) ==
    IF bs = <<>> THEN 0
    ELSE bs[1] + 256 * FromBytesBig_little(Tail(bs))

\* int.from_bytes(bs, 'big'); 0 for no bytes
RECURSIVE FromBytesBig(_)
FromBytesBig(bs) ==
    IF bs = <<>> THEN 0
    ELSE 256 * FromBytesBig(SubSeq(bs, 1, Len(bs) - 1)) + bs[Len(bs)]

\* Path.suffix: from the last dot of the final component on, '' when the
\* component has no dot after its first character or ends in a dot
PathName(path) ==
    LET slashes == {k \in 1..Len(path) : path[k] = "/"}
    IN  IF slashes = {} THEN path
        ELSE From(path, (CHOOSE k \in slashes : \A m \in slashes : m <= k) + 1)

Suffix(path) ==
    LET name == PathName(path)
        dots == {k \in 2..Len(name) : name[k] = "."}
        last == CHOOSE k \in dots : \A m \in dots : m <= k
    IN  IF dots = {} \/ last = Len(name) THEN <<>>
        ELSE From(name, last)

DotJpg == <<".", "j", "p", "g">>
\* the four-letter spelling of the suffix
DotTif_tiff == <<".", "t", "i", "f", "f">>

DotTif == <<".", "t", "i", "f">>

NoDims == <<0 - 1, 0 - 1>>

MainIdle ==
    /\ argv = <<>>
    /\ path_exists = FALSE
    /\ exit_code = 0 - 1
    /\ stdout = <<>>

BatchIdle ==
    /\ uploads = <<>>
    /\ events = <<>>
    /\ job = <<>>
    /\ maps = <<>>
    /\ hpc = <<>>
    /\ hidx = <<>>
    /\ ecs_launched = <<>>
    /\ records = <<>>
    /\ created = <<>>
    /\ ecs_tasks = <<>>
    /\ fallback_invocations = <<>>
    /\ tpc = <<>>
    /\ attrs = <<>>
    /\ final_status = <<>>

PipeIdle ==
    /\ increments = <<>>
    /\ outputs = <<>>
    /\ fpc = <<>>

MapItemIdle ==
    /\ map_item = <<>>
    /\ upc = <<>>
    /\ via = <<>>
    /\ mjob = <<>>
    /\ mtpc = <<>>
    /\ last_event = <<>>

OtherIdle == MainIdle /\ BatchIdle /\ PipeIdle /\ MapItemIdle

JpgIdle ==
    /\ img_file = <<>>
    /\ jpgBytes = <<>>
    /\ jpgPos = 0
    /\ scan = "idle"
    /\ dims = NoDims
    /\ dimError = NoMsg

\* lines 194-199 and 221-223: the suffix test and the SOI marker
OpenImage ==
    /\ scan = "open"
    /\ IF Lower(Suffix(img_file)) # DotJpg
         THEN /\ scan' = "raised"
              /\ dimError' = Msg("Cannot read dimensions for files without additional libraries",
                                 0, Suffix(img_file))
              /\ UNCHANGED jpgPos
         ELSE /\ jpgPos' = Len(Read(jpgBytes, 0, 2))
              /\ IF Read(jpgBytes, 0, 2) # <<255, 216>>
                   THEN /\ scan' = "raised"
                        /\ dimError' = Msg("Not a valid JPEG file", 0, <<>>)
                   ELSE /\ scan' = "marker"
                        /\ UNCHANGED dimError
    /\ UNCHANGED <<img_file, jpgBytes, dims, fnVars, otherVars, valVars>>

\* lines 203-215: read a marker; a start-of-frame marker ends the scan
ReadMarker ==
    /\ scan = "marker"
    /\ LET marker == Read(jpgBytes, jpgPos, 2)
           afterMarker == jpgPos + Len(marker)
           skipped == Read(jpgBytes, afterMarker, 3)
           heightAt == afterMarker + Len(skipped)
           heightBytes == Read(jpgBytes, heightAt, 2)
           widthAt == heightAt + Len(heightBytes)
           widthBytes == Read(jpgBytes, widthAt, 2)
       IN  IF Len(marker) # 2
             THEN /\ scan' = "raised"
                  /\ dimError' = Msg("Unexpected end of JPEG file", 0, <<>>)
                  /\ jpgPos' = afterMarker
                  /\ UNCHANGED dims
           ELSE IF marker[1] # 255
             THEN /\ scan' = "raised"
                  /\ dimError' = Msg("Invalid JPEG marker", 0, <<>>)
                  /\ jpgPos' = afterMarker
                  /\ UNCHANGED dims
           ELSE IF marker[2] \in {192, 193, 194}
             THEN /\ scan' = "returned"
                  /\ dims' = <<FromBytesBig(widthBytes), FromBytesBig(heightBytes)>>
                  /\ jpgPos' = widthAt + Len(widthBytes)
                  /\ UNCHANGED dimError
           ELSE /\ scan' = "segment"
                /\ jpgPos' = afterMarker
                /\ UNCHANGED <<dims, dimError>>
    /\ UNCHANGED <<img_file, jpgBytes, fnVars, otherVars, valVars>>

\* lines 218-219: read the segment length and seek past the segment
SkipSegment ==
    /\ scan = "segment"
    /\ LET lengthBytes == Read(jpgBytes, jpgPos, 2)
           length == FromBytesBig(lengthBytes)
       IN  jpgPos' = jpgPos + Len(lengthBytes) + (length - 2)
    /\ scan' = "marker"
    /\ UNCHANGED <<img_file, jpgBytes, dims, dimError, fnVars, otherVars, valVars>>

-----------------------------------------------------------------------------
(* frontend/validate_map.py: read_world_file                               *)
(* A line of a world file is a number (an integer here), a non-finite      *)
(* float literal (nan, inf) or text that float() rejects.                  *)

NumLine(v) == [t |-> "num", v |-> v]
NonFiniteLine == [t |-> "nonfinite", v |-> 0]
TextLine == [t |-> "text", v |-> 0]

\* a sidecar file: whether it exists and its lines
NoFile == [exists |-> FALSE, lines |-> <<>>]
FileOf(lines) == [exists |-> TRUE, lines |-> lines]

\* is_number
is_number(line) == line.t # "text"

WorldRead(ok, t, err) == [ok |-> ok, transform |-> t, error |-> err]

\* a reader that takes the .jgw sidecar first
read_world_file_jgwFirst(jgwx, jgw) ==
    LET found == jgwx.exists \/ jgw.exists
        contents == IF jgw.exists THEN jgw.lines ELSE jgwx.lines
    IN  IF ~found \/ contents = <<>>
            THEN WorldRead(FALSE, <<>>,
                     Msg("No world file (.jgw or .jgwx) found for georeferencing", 0, <<>>))
        ELSE IF Len(contents) # 6 \/ \E i \in 1..Len(contents) : ~is_number(contents[i])
            THEN WorldRead(FALSE, <<>>, Msg("Invalid world file format", 0, <<>>))
        ELSE WorldRead(TRUE, contents, NoMsg)

read_world_file(jgwx, jgw) ==
    LET found == jgwx.exists \/ jgw.exists
        contents == IF jgwx.exists THEN jgwx.lines ELSE jgw.lines
    IN  IF ~found \/ contents = <<>>
            THEN WorldRead(FALSE, <<>>,
                     Msg("No world file (.jgw or .jgwx) found for georeferencing", 0, <<>>))
        ELSE IF Len(contents) # 6 \/ \E i \in 1..Len(contents) : ~is_number(contents[i])
            THEN WorldRead(FALSE, <<>>, Msg("Invalid world file format", 0, <<>>))
        ELSE WorldRead(TRUE, contents, NoMsg)

-----------------------------------------------------------------------------
(* frontend/validate_map.py: the geometry                                  *)
(* transform = (a, d, b, e, c, f)                                          *)

IsFinite(t) == \A i \in 1..6 : t[i].t = "num"

\* the transformation with the roles of b and d exchanged
apply_transform_swapped(pixel_x, pixel_y, t) ==
    << t[1].v * pixel_x + t[2].v * pixel_y + t[5].v,
       t[3].v * pixel_x + t[4].v * pixel_y + t[6].v >>

apply_transform(pixel_x, pixel_y, t) ==
    << t[1].v * pixel_x + t[3].v * pixel_y + t[5].v,
       t[2].v * pixel_x + t[4].v * pixel_y + t[6].v >>

\* a rounding that always moves to the next thousand
CeilThousandth_floorPlusOne(v) == (v \div 1000) + 1

\* math.ceil(v / 1000)
CeilThousandth(v) == 0 - ((0 - v) \div 1000)

DigitSeq == <<"0", "1", "2", "3", "4", "5", "6", "7", "8", "9">>

\* str(n) for an int n
RECURSIVE NatToStr(_)
NatToStr(n) ==
    IF n < 10 THEN <<DigitSeq[n + 1]>>
    ELSE NatToStr(n \div 10) \o <<DigitSeq[(n % 10) + 1]>>

IntToStr(n) == IF n < 0 THEN <<"-">> \o NatToStr(0 - n) ELSE NatToStr(n)

\* s[i:j] of Python for 0 <= i <= j
Slice(s, i, j) ==
    SubSeq(s, i + 1, IF j <= Len(s) THEN j ELSE Len(s))

\* the splice with the two y digits ahead of the two x digits
determine_sheet_number_from_coords_yFirst(width, height, t) ==
    LET bottom_left == apply_transform(0, height, t)
        x == IntToStr(CeilThousandth(bottom_left[1]) * 1000)
        y == IntToStr(CeilThousandth(bottom_left[2]) * 1000)
    IN  Slice(x, 0, 1) \o Slice(y, 0, 1) \o Slice(y, 1, 3) \o Slice(x, 1, 3)

determine_sheet_number_from_coords(width, height, t) ==
    LET bottom_left == apply_transform(0, height, t)
        x == IntToStr(CeilThousandth(bottom_left[1]) * 1000)
        y == IntToStr(CeilThousandth(bottom_left[2]) * 1000)
    IN  Slice(x, 0, 1) \o Slice(y, 0, 1) \o Slice(x, 1, 3) \o Slice(y, 1, 3)

\* int(s) for a string of decimal digits
RECURSIVE DigitsToInt(_)
DigitsToInt(s) ==
    IF s = <<>> THEN 0
    ELSE 10 * DigitsToInt(SubSeq(s, 1, Len(s) - 1))
         + ((CHOOSE k \in 1..10 : DigitSeq[k] = s[Len(s)]) - 1)

Bounds(l, r, t, b) == [left |-> l, right |-> r, top |-> t, bottom |-> b]

get_map_bounds(sheet_number, shrink_m) ==
    LET left == DigitsToInt(<<sheet_number[1], sheet_number[3], sheet_number[4]>>) * 1000
        bottom == DigitsToInt(<<sheet_number[2], sheet_number[5], sheet_number[6]>>) * 1000
        top == bottom + 1000
        right == left + 2000
    IN  Bounds(left + shrink_m, right - shrink_m, top - shrink_m, bottom + shrink_m)

Min4(a, b, c, d) == CHOOSE m \in {a, b, c, d} : \A n \in {a, b, c, d} : m <= n
Max4(a, b, c, d) == CHOOSE m \in {a, b, c, d} : \A n \in {a, b, c, d} : m >= n

get_image_bounds(width, height, t) ==
    LET top_left == apply_transform(0, 0, t)
        top_right == apply_transform(width, 0, t)
        bottom_right == apply_transform(width, height, t)
        bottom_left == apply_transform(0, height, t)
    IN  Bounds(Min4(top_left[1], top_right[1], bottom_right[1], bottom_left[1]),
               Max4(top_left[1], top_right[1], bottom_right[1], bottom_left[1]),
               Max4(top_left[2], top_right[2], bottom_right[2], bottom_left[2]),
               Min4(top_left[2], top_right[2], bottom_right[2], bottom_left[2]))

\* a containment test that leaves the top edge out
bounds_contains_noTop(outer, inner) ==
    /\ outer.left <= inner.left
    /\ outer.right >= inner.right
    /\ outer.bottom <= inner.bottom

bounds_contains(outer, inner) ==
    /\ outer.left <= inner.left
    /\ outer.right >= inner.right
    /\ outer.bottom <= inner.bottom
    /\ outer.top >= inner.top

-----------------------------------------------------------------------------
(* frontend/validate_map.py: validate_map_file                             *)
(* One action per step of the function.  An exception raised inside the    *)
(* outer try is recorded in exc and handled by the except clauses.         *)

\* a result that starts out valid
EmptyResult_validTrue ==
    [valid |-> TRUE, error |-> NoMsg, filename_sheet_number |-> None,
     actual_sheet_number |-> None, warning |-> NoMsg]

EmptyResult ==
    [valid |-> FALSE, error |-> NoMsg, filename_sheet_number |-> None,
     actual_sheet_number |-> None, warning |-> NoMsg]

NoTransform == <<>>

\* an outer try that handles zipfile.BadZipFile only
ExceptionClasses_zipOnly == {"BadZipFile"}

\* the exception classes the steps raise, all subclasses of Exception
ExceptionClasses == {"BadZipFile", "RuntimeError", "ValueError", "OverflowError"}

ValIdle ==
    /\ archive = [kind |-> "zip", members |-> {}, jgwx |-> NoFile, jgw |-> NoFile,
                  image |-> <<>>]
    /\ pc = "idle"
    /\ result = EmptyResult
    /\ temp_dir = FALSE
    /\ transform = NoTransform
    /\ exc = "None"

\* f.name.startswith(".")
IsHidden(path) == PathName(path) # <<>> /\ PathName(path)[1] = "."

\* temp_path.rglob("*" + suffix): the extracted files whose name ends in the
\* suffix (matched case-sensitively)
RGlob(members, suffix) ==
    {m \in members :
        /\ Len(PathName(m)) >= Len(suffix)
        /\ From(PathName(m), Len(PathName(m)) - Len(suffix) + 1) = suffix}

\* an image list that leaves the .tif files out
ImageFiles_jpgOnly(members) ==
    {m \in RGlob(members, DotJpg) : ~IsHidden(m)}

\* lines 344-346
ImageFiles(members) ==
    {m \in RGlob(members, DotJpg) : ~IsHidden(m)}
    \cup {m \in RGlob(members, DotTif) : ~IsHidden(m)}

\* a filename step that records its error and goes on to the archive
ParseFilename_noReturn ==
    /\ pc = "start"
    /\ LET filename_sheet_number == get_sheet_number_from_filename(filename)
       IN  IF filename_sheet_number = None
             THEN /\ result' = [result EXCEPT
                                  !.error = get_filename_validation_error(filename)]
                  /\ pc' = "extract"
             ELSE /\ result' = [result EXCEPT
                                  !.filename_sheet_number = filename_sheet_number]
                  /\ pc' = "extract"
    /\ UNCHANGED <<archive, temp_dir, transform, exc, fnVars, otherVars, jpgVars>>

\* lines 328-334
ParseFilename ==
    /\ pc = "start"
    /\ LET filename_sheet_number == get_sheet_number_from_filename(filename)
       IN  IF filename_sheet_number = None
             THEN /\ result' = [result EXCEPT
                                  !.error = get_filename_validation_error(filename)]
                  /\ pc' = "done"
             ELSE /\ result' = [result EXCEPT
                                  !.filename_sheet_number = filename_sheet_number]
                  /\ pc' = "extract"
    /\ UNCHANGED <<archive, temp_dir, transform, exc, fnVars, otherVars, jpgVars>>

\* line 337: tempfile.TemporaryDirectory() creates the extraction directory
CreateTempDir ==
    /\ pc = "extract"
    /\ temp_dir' = TRUE
    /\ pc' = "unzip"
    /\ UNCHANGED <<archive, result, transform, exc, fnVars, otherVars, jpgVars>>

\* an extraction whose directory is never removed (tempfile.mkdtemp)
ExtractArchive_mkdtemp ==
    /\ pc = "unzip"
    /\ IF archive.kind = "notzip"
         THEN /\ exc' = "BadZipFile"
              /\ pc' = "except"
              /\ UNCHANGED <<result, temp_dir, img_file, jpgBytes>>
       ELSE IF archive.kind = "encrypted"
         THEN /\ exc' = "RuntimeError"
              /\ pc' = "except"
              /\ UNCHANGED <<result, temp_dir, img_file, jpgBytes>>
       ELSE LET image_files == ImageFiles(archive.members)
            IN  IF Cardinality(image_files) = 0
                  THEN /\ result' = [result EXCEPT !.error =
                              Msg("No image files (.jpg or .tif) found in ZIP", 0, <<>>)]
                       /\ pc' = "done"
                       /\ UNCHANGED <<temp_dir, exc, img_file, jpgBytes>>
                ELSE IF Cardinality(image_files) > 1
                  THEN /\ result' = [result EXCEPT !.error =
                              Msg("Found N image files in ZIP. Expected exactly 1.",
                                  Cardinality(image_files), <<>>)]
                       /\ pc' = "done"
                       /\ UNCHANGED <<temp_dir, exc, img_file, jpgBytes>>
                ELSE /\ img_file' = CHOOSE m \in image_files : TRUE
                     /\ jpgBytes' = archive.image
                     /\ UNCHANGED temp_dir
                     /\ pc' = "image"
                     /\ UNCHANGED <<result, exc>>
    /\ UNCHANGED <<archive, transform, fnVars, otherVars, jpgPos, scan, dims, dimError>>

\* lines 339-356: extraction into the temporary directory, the image count;
\* every exit from the with block removes the directory
ExtractArchive ==
    /\ pc = "unzip"
    /\ IF archive.kind = "notzip"
         THEN /\ exc' = "BadZipFile"
              /\ pc' = "except"
              /\ temp_dir' = FALSE
              /\ UNCHANGED <<result, img_file, jpgBytes>>
       ELSE IF archive.kind = "encrypted"
         THEN /\ exc' = "RuntimeError"
              /\ pc' = "except"
              /\ temp_dir' = FALSE
              /\ UNCHANGED <<result, img_file, jpgBytes>>
       ELSE LET image_files == ImageFiles(archive.members)
            IN  IF Cardinality(image_files) = 0
                  THEN /\ result' = [result EXCEPT !.error =
                              Msg("No image files (.jpg or .tif) found in ZIP", 0, <<>>)]
                       /\ pc' = "done"
                       /\ temp_dir' = FALSE
                       /\ UNCHANGED <<exc, img_file, jpgBytes>>
                ELSE IF Cardinality(image_files) > 1
                  THEN /\ result' = [result EXCEPT !.error =
                              Msg("Found N image files in ZIP. Expected exactly 1.",
                                  Cardinality(image_files), <<>>)]
                       /\ pc' = "done"
                       /\ temp_dir' = FALSE
                       /\ UNCHANGED <<exc, img_file, jpgBytes>>
                ELSE /\ img_file' = CHOOSE m \in image_files : TRUE
                     /\ jpgBytes' = archive.image
                     /\ UNCHANGED temp_dir
                     /\ pc' = "image"
                     /\ UNCHANGED <<result, exc>>
    /\ UNCHANGED <<archive, transform, fnVars, otherVars, jpgPos, scan, dims, dimError>>

\* lines 359-364 and 378-385: the branch on the image suffix, read_world_file
ReadWorldFile ==
    /\ pc = "image"
    /\ IF Lower(Suffix(img_file)) = DotJpg
         THEN LET read == read_world_file(archive.jgwx, archive.jgw)
              IN  IF read.ok
                    THEN /\ transform' = read.transform
                         /\ pc' = "guard"
                         /\ UNCHANGED <<result, temp_dir>>
                    ELSE /\ result' = [result EXCEPT !.error = read.error]
                         /\ pc' = "done"
                         /\ temp_dir' = FALSE
                         /\ UNCHANGED transform
       ELSE IF Lower(Suffix(img_file)) = DotTif
         THEN /\ result' = [result EXCEPT
                    !.warning = Msg("TIF file validation not yet implemented.", 0, <<>>),
                    !.valid = TRUE]
              /\ pc' = "done"
              /\ temp_dir' = FALSE
              /\ UNCHANGED transform
       ELSE /\ result' = [result EXCEPT !.error =
                    Msg("Unsupported image format:", 0, Suffix(img_file))]
            /\ pc' = "done"
            /\ temp_dir' = FALSE
            /\ UNCHANGED transform
    /\ UNCHANGED <<archive, exc, fnVars, otherVars, jpgVars>>

\* a guard that rejects when either translation is near the origin
OriginGuard_either ==
    /\ pc = "guard"
    /\ IF \/ transform[5].t = "num" /\ 0 - 5 < transform[5].v /\ transform[5].v < 5
          \/ transform[6].t = "num" /\ 0 - 5 < transform[6].v /\ transform[6].v < 5
         THEN /\ result' = [result EXCEPT !.error =
                    Msg("Georeferencing transformation is invalid (coordinates near origin)",
                        0, <<>>)]
              /\ pc' = "done"
              /\ temp_dir' = FALSE
              /\ UNCHANGED scan
         ELSE /\ pc' = "dims"
              /\ scan' = "open"
              /\ UNCHANGED <<result, temp_dir>>
    /\ UNCHANGED <<archive, transform, exc, fnVars, otherVars,
                   img_file, jpgBytes, jpgPos, dims, dimError>>

\* lines 366-373: the near-origin guard, then the call of get_image_dimensions
OriginGuard ==
    /\ pc = "guard"
    /\ IF /\ transform[5].t = "num" /\ 0 - 5 < transform[5].v /\ transform[5].v < 5
          /\ transform[6].t = "num" /\ 0 - 5 < transform[6].v /\ transform[6].v < 5
         THEN /\ result' = [result EXCEPT !.error =
                    Msg("Georeferencing transformation is invalid (coordinates near origin)",
                        0, <<>>)]
              /\ pc' = "done"
              /\ temp_dir' = FALSE
              /\ UNCHANGED scan
         ELSE /\ pc' = "dims"
              /\ scan' = "open"
              /\ UNCHANGED <<result, temp_dir>>
    /\ UNCHANGED <<archive, transform, exc, fnVars, otherVars,
                   img_file, jpgBytes, jpgPos, dims, dimError>>

\* lines 372-376: get_image_dimensions has returned or raised
DimensionsRead ==
    /\ pc = "dims"
    /\ scan \in {"returned", "raised"}
    /\ IF scan = "raised"
         THEN /\ result' = [result EXCEPT !.error =
                    Msg("Could not read image dimensions:", 0, <<dimError.kind>>)]
              /\ pc' = "done"
              /\ temp_dir' = FALSE
         ELSE /\ pc' = "sheet"
              /\ UNCHANGED <<result, temp_dir>>
    /\ UNCHANGED <<archive, transform, exc, fnVars, otherVars, jpgVars>>

\* a comparison that reports a mismatch without recording the computed number
CompareSheetNumber_unrecorded ==
    /\ pc = "sheet"
    /\ IF ~IsFinite(transform)
         THEN \* math.ceil raises ValueError (nan) or OverflowError (inf)
              /\ exc' \in {"ValueError", "OverflowError"}
              /\ pc' = "except"
              /\ temp_dir' = FALSE
              /\ UNCHANGED result
         ELSE LET actual_sheet_number ==
                      determine_sheet_number_from_coords(dims[1], dims[2], transform)
              IN  IF result.filename_sheet_number # actual_sheet_number
                    THEN /\ result' = [result EXCEPT
                               !.error = Msg("Sheet number validation failed", 0,
                                             PathName(img_file) \o <<"|">>
                                             \o result.filename_sheet_number \o <<"|">>
                                             \o actual_sheet_number)]
                         /\ pc' = "done"
                         /\ temp_dir' = FALSE
                         /\ UNCHANGED exc
                    ELSE /\ result' = [result EXCEPT
                               !.actual_sheet_number = actual_sheet_number]
                         /\ pc' = "bounds"
                         /\ UNCHANGED <<temp_dir, exc>>
    /\ UNCHANGED <<archive, transform, fnVars, otherVars, jpgVars>>

\* lines 387-399: the sheet number of the georeferencing against the filename's
CompareSheetNumber ==
    /\ pc = "sheet"
    /\ IF ~IsFinite(transform)
         THEN \* math.ceil raises ValueError (nan) or OverflowError (inf)
              /\ exc' \in {"ValueError", "OverflowError"}
              /\ pc' = "except"
              /\ temp_dir' = FALSE
              /\ UNCHANGED result
         ELSE LET actual_sheet_number ==
                      determine_sheet_number_from_coords(dims[1], dims[2], transform)
              IN  IF result.filename_sheet_number # actual_sheet_number
                    THEN /\ result' = [result EXCEPT
                               !.actual_sheet_number = actual_sheet_number,
                               !.error = Msg("Sheet number validation failed", 0,
                                             PathName(img_file) \o <<"|">>
                                             \o result.filename_sheet_number \o <<"|">>
                                             \o actual_sheet_number)]
                         /\ pc' = "done"
                         /\ temp_dir' = FALSE
                         /\ UNCHANGED exc
                    ELSE /\ result' = [result EXCEPT
                               !.actual_sheet_number = actual_sheet_number]
                         /\ pc' = "bounds"
                         /\ UNCHANGED <<temp_dir, exc>>
    /\ UNCHANGED <<archive, transform, fnVars, otherVars, jpgVars>>

\* lines 401-414: the image bounds must contain the shrunk map bounds
CheckBounds ==
    /\ pc = "bounds"
    /\ LET map_bounds == get_map_bounds(result.filename_sheet_number, 2)
           image_bounds == get_image_bounds(dims[1], dims[2], transform)
       IN  IF ~bounds_contains(image_bounds, map_bounds)
             THEN result' = [result EXCEPT !.error =
                     MsgB("Image bounds do not contain expected map area for sheet", 0,
                          result.filename_sheet_number,
                          <<image_bounds, map_bounds>>)]
             ELSE result' = [result EXCEPT !.valid = TRUE]
    /\ pc' = "done"
    /\ temp_dir' = FALSE
    /\ UNCHANGED <<archive, transform, exc, fnVars, otherVars, jpgVars>>

\* lines 416-421: the except clauses of the outer try
HandleException ==
    /\ pc = "except"
    /\ IF exc = "BadZipFile"
         THEN /\ result' = [result EXCEPT !.error = Msg("Invalid ZIP file", 0, <<>>)]
              /\ pc' = "done"
       ELSE IF exc \in ExceptionClasses
         THEN /\ result' = [result EXCEPT !.error = Msg("Validation error:", 0, <<exc>>)]
              /\ pc' = "done"
       ELSE /\ pc' = "propagated"
            /\ UNCHANGED result
    /\ UNCHANGED <<archive, temp_dir, transform, exc, fnVars, otherVars, jpgVars>>

-----------------------------------------------------------------------------
(* Image files under test                                                  *)

MaxBodyLen == 4

ByteAlphabet == {0, 1, 2, 3, 192, 224, 255}

\* a JPEG of the given size: SOI, the given leading segments, a frame header
FrameHeader(sof, width, height) ==
    <<255, sof, 0, 11, 8, height \div 256, height % 256, width \div 256, width % 256>>

App0 == <<255, 224, 0, 4, 1, 1>>

JpegOf(width, height) == <<255, 216>> \o FrameHeader(192, width, height)

JpegStreams ==
    {<<255, 216>> \o body : body \in StringsUpTo(ByteAlphabet, MaxBodyLen)}
    \cup StringsUpTo({0, 216, 255}, 2)
    \cup {<<255, 216>> \o pre \o FrameHeader(sof, 300, 200) \o post :
            pre \in {<<>>, App0, App0 \o App0, <<255, 224, 0, 2>>},
            sof \in {192, 193, 194},
            post \in {<<>>, <<255, 217>>}}
    \cup {JpegOf(10, 5), JpegOf(0, 0)}

ImagePaths ==
    { <<"m", ".", "j", "p", "g">>, <<"M", ".", "J", "P", "G">>,
      <<"d", "/", "m", ".", "t", "i", "f">> }

InitJpeg ==
    /\ filename = <<>>
    /\ sheetResult = Unset
    /\ diagResult = UnsetMsg
    /\ lambdaResult = UnsetLambda
    /\ img_file \in ImagePaths
    /\ jpgBytes \in JpegStreams
    /\ jpgPos = 0
    /\ scan = "open"
    /\ dims = NoDims
    /\ dimError = NoMsg
    /\ ValIdle
    /\ OtherIdle

NextJpeg == OpenImage \/ ReadMarker \/ SkipSegment

SpecJpeg == InitJpeg /\ [][NextJpeg]_vars

\* the scan is a sequential loop: a step that can be taken is taken
SpecJpegFair == SpecJpeg /\ WF_vars(NextJpeg)

\* C3: for every finite byte sequence the marker scan terminates, returning
\* dimensions or failing with not-a-JPEG, unexpected-end or invalid-marker.
C3_ScanTerminates == <>(scan \in {"returned", "raised"})

-----------------------------------------------------------------------------
(* Filenames under test: prefix, sheet part, tail and extension            *)

MaxPrefixLen == 2

PrefixAlphabet == {"a", "7", "_", "!", " "}

Prefixes ==
    StringsUpTo(PrefixAlphabet, MaxPrefixLen) \cup
    { <<"1", "7", "8", "3", "6", "_">>,
      <<"4", "3", "3", "8", "5", "7", "_">>,
      <<"D", "4", "3", "3", "8", "5", "7", "_">>,
      <<"a", "\n", "_">>,
      <<"a", "_", "b", "_">>,
      <<"4", "3", "_">> }

SheetParts ==
    { <<"4", "3", "3", "8", "5", "7">>,
      <<"4", "3", "_", "3", "8", "5", "7">>,
      <<"2", "6", "-", "9", "2", "8", "5">>,
      <<"0", "0", " ", "0", "1", "0", "2">>,
      <<"4", "3", "3", "8", "5">>,
      <<"4", "3", "3", "8", "5", "7", "1">>,
      <<"4", "3", "3", "_", "8", "5", "7">>,
      <<"x">>,
      <<>> }

Tails ==
    { <<>>, <<"_">>, <<"_", "U", "p">>, <<"-", "2">>, <<" ", "v">>, <<"x">>,
      <<"\n">> }

Extensions == { <<>>, <<".", "z", "i", "p">>, <<".", "Z", "I", "P">>, <<".", "x">> }

Filenames ==
    {p \o s \o t \o e : p \in Prefixes, s \in SheetParts, t \in Tails, e \in Extensions}

-----------------------------------------------------------------------------
(* The three filename operations, each called on the filename under test   *)

InitFilename ==
    /\ filename \in Filenames
    /\ sheetResult = Unset
    /\ diagResult = UnsetMsg
    /\ lambdaResult = UnsetLambda
    /\ JpgIdle
    /\ ValIdle
    /\ OtherIdle

CallGetSheetNumber ==
    /\ sheetResult' = get_sheet_number_from_filename(filename)
    /\ UNCHANGED <<filename, diagResult, lambdaResult, jpgVars, valVars, otherVars>>

CallGetFilenameError ==
    /\ diagResult' = get_filename_validation_error(filename)
    /\ UNCHANGED <<filename, sheetResult, lambdaResult, jpgVars, valVars, otherVars>>

CallValidateFilename ==
    /\ lambdaResult' = validate_filename(filename)
    /\ UNCHANGED <<filename, sheetResult, diagResult, jpgVars, valVars, otherVars>>

NextFilename == CallGetSheetNumber \/ CallGetFilenameError \/ CallValidateFilename

SpecFilename == InitFilename /\ [][NextFilename]_vars

-----------------------------------------------------------------------------
(* Archives under test                                                     *)

WorldOf(a, d, b, e, c, f) ==
    FileOf(<<NumLine(a), NumLine(d), NumLine(b), NumLine(e), NumLine(c), NumLine(f)>>)

\* translations around the cell of sheet 433857 (left 438000, bottom 357000)
\* for a 10 x 5 image of 250 m pixels, and around the origin
TranslationsX ==
    {437000, 437001, 437497, 437498, 437900, 438000, 438001, 0 - 437900, 0, 4, 5}
TranslationsY ==
    {357250, 357251, 357997, 357998, 358100, 358250, 358251, 0 - 358100, 0, 4, 0 - 5}

GoodWorlds ==
    {WorldOf(250, d, b, 0 - 250, c, f) :
        d \in {0, 10}, b \in {0, 0 - 10}, c \in TranslationsX, f \in TranslationsY}

DefaultWorld == WorldOf(250, 0, 0, 0 - 250, 437900, 358100)

\* 100.0 / 0.0 / 0.0 / -100.0 / 500000.0 / 6000000.0
ExampleWorld == WorldOf(100, 0, 0, 0 - 100, 500000, 6000000)

\* readable sidecars that differ from one another, for archives that hold
\* both a .jgwx and a .jgw file
SidecarPairWorlds ==
    {DefaultWorld, ExampleWorld, WorldOf(250, 0, 0, 0 - 250, 437000, 357250)}

BadWorlds ==
    { NoFile,
      FileOf(<<>>),
      FileOf(<<NumLine(250), NumLine(0), NumLine(0), NumLine(0 - 250), NumLine(437900)>>),
      FileOf(<<NumLine(250), NumLine(0), NumLine(0), NumLine(0 - 250), NumLine(437900),
               NumLine(358100), NumLine(0)>>),
      FileOf(<<NumLine(250), NumLine(0), TextLine, NumLine(0 - 250), NumLine(437900),
               NumLine(358100)>>),
      FileOf(<<NumLine(250), NumLine(0), NumLine(0), NumLine(0 - 250), NonFiniteLine,
               NumLine(358100)>>),
      FileOf(<<NumLine(250), NonFiniteLine, NumLine(0), NumLine(0 - 250), NumLine(437900),
               NumLine(358100)>>),
      FileOf(<<NumLine(250), NumLine(0), NumLine(0), NumLine(0 - 250), NumLine(3),
               NonFiniteLine>>) }

ImagesUnderTest ==
    { JpegOf(10, 5), JpegOf(10, 4), JpegOf(8, 5),
      <<255, 216>> \o App0 \o FrameHeader(194, 10, 5),
      <<>>, <<255, 216, 0>>, <<255, 216, 255, 224>>, <<255, 216, 255, 192>> }

MJpg == <<"m", ".", "j", "p", "g">>
MTif == <<"m", ".", "t", "i", "f">>

MemberPaths ==
    { MJpg,
      <<"M", ".", "J", "P", "G">>,
      <<".", "m", ".", "j", "p", "g">>,
      <<"m", ".", "t", "i", "f">>,
      <<"d", "/", "n", ".", "j", "p", "g">>,
      <<"m", ".", "p", "n", "g">>,
      <<"m", ".", "j", "g", "w">> }

MemberSets == {ms \in SUBSET MemberPaths : Cardinality(ms) <= 2}

ArchiveOf(kind, members, jgwx, jgw, image) ==
    [kind |-> kind, members |-> members, jgwx |-> jgwx, jgw |-> jgw, image |-> image]

DefaultArchive == ArchiveOf("zip", {MJpg}, NoFile, DefaultWorld, JpegOf(10, 5))

\* a_430000.zip: the sheet whose cell has its lower-left corner at
\* (400000, 300000)
SmallCoordinateName ==
    <<"a", "_", "4", "3", "0", "0", "0", "0", ".", "z", "i", "p">>

\* images for that name: a 10 x 5 image on the cell, and 1600 x 1200 images
\* of 250 m pixels whose bottom-left corner has four-digit coordinates
SmallCoordinateCases ==
    { <<WorldOf(250, 0, 0, 0 - 250, 399900, 301100), JpegOf(10, 5)>>,
      <<WorldOf(250, 0, 0, 0 - 250, 3500, 302500), JpegOf(1600, 1200)>>,
      <<WorldOf(250, 0, 0, 0 - 250, 3500, 301100), JpegOf(1600, 5)>>,
      <<WorldOf(250, 0, 0, 0 - 250, 399900, 302500), JpegOf(10, 1200)>>,
      <<WorldOf(250, 0, 0, 0 - 250, 4500, 302500), JpegOf(1600, 1200)>> }

NamesUnderTest ==
    { <<"a", "_", "4", "3", "3", "8", "5", "7", ".", "z", "i", "p">>,
      <<"D", "7", "_", "4", "3", "_", "3", "8", "5", "7", "_", "U", "p", ".", "z", "i", "p">>,
      <<"a", "_", "4", "3", "8", "3", "5", "7", ".", "z", "i", "p">> }

RejectedNamesUnderTest ==
    { <<"4", "3", "3", "8", "5", "7", ".", "z", "i", "p">>,
      <<"_", "4", "3", "3", "8", "5", "7", ".", "z", "i", "p">> }

\* archives in which more than one step has something to fail on
FailingArchives ==
    { ArchiveOf(k, ms, NoFile, w, i) :
        k \in {"zip", "notzip"},
        ms \in {{}, {MJpg}, {MJpg, MTif}},
        w \in {DefaultWorld, FileOf(<<>>), WorldOf(250, 0, 0, 0 - 250, 4, 4),
               WorldOf(250, 0, 0, 0 - 250, 437001, 358100)},
        i \in {JpegOf(10, 5), <<255, 216, 0>>, <<>>} }

\* every filename with the default archive; a few filenames with every
\* archive shape (an encrypted archive has a member to encrypt), every world
\* file and every image
ValidateInputs ==
    (Filenames \X {DefaultArchive})
    \cup {<<n, ArchiveOf(k, ms, NoFile, DefaultWorld, JpegOf(10, 5))>> :
            n \in NamesUnderTest, k \in {"zip", "notzip"}, ms \in MemberSets}
    \cup {<<n, ArchiveOf("encrypted", ms, NoFile, DefaultWorld, JpegOf(10, 5))>> :
            n \in NamesUnderTest, ms \in MemberSets \ {{}}}
    \cup {<<n, ArchiveOf("zip", {MJpg}, NoFile, w, i)>> :
            n \in NamesUnderTest, w \in GoodWorlds, i \in ImagesUnderTest}
    \cup {<<n, ArchiveOf("zip", {MJpg}, x, w, JpegOf(10, 5))>> :
            n \in NamesUnderTest, x \in BadWorlds \cup {DefaultWorld},
            w \in BadWorlds \cup {DefaultWorld}}
    \cup {<<n, ArchiveOf("zip", {MJpg}, NoFile, ExampleWorld, JpegOf(10, 10))>> :
            n \in NamesUnderTest}
    \cup {<<n, ArchiveOf("zip", {MTif}, x, w, <<>>)>> :
            n \in NamesUnderTest, x \in BadWorlds \cup {DefaultWorld},
            w \in BadWorlds \cup {DefaultWorld}}
    \cup {<<n, a>> : n \in NamesUnderTest \cup RejectedNamesUnderTest,
                     a \in FailingArchives}
    \cup {<<n, ArchiveOf("zip", {MJpg}, x, w, JpegOf(10, 5))>> :
            n \in NamesUnderTest, x \in SidecarPairWorlds, w \in SidecarPairWorlds}
    \cup {<<SmallCoordinateName, ArchiveOf("zip", {MJpg}, NoFile, c[1], c[2])>> :
            c \in SmallCoordinateCases}

-----------------------------------------------------------------------------
(* validate_map_file called once on an archive and its original filename   *)

Init ==
    /\ \E input \in ValidateInputs :
          /\ filename = input[1]
          /\ archive = input[2]
    /\ sheetResult = Unset
    /\ diagResult = UnsetMsg
    /\ lambdaResult = UnsetLambda
    /\ JpgIdle
    /\ pc = "start"
    /\ result = EmptyResult
    /\ temp_dir = FALSE
    /\ transform = NoTransform
    /\ exc = "None"
    /\ OtherIdle

Next ==
    \/ ParseFilename
    \/ CreateTempDir
    \/ ExtractArchive
    \/ ReadWorldFile
    \/ OriginGuard
    \/ OpenImage
    \/ ReadMarker
    \/ SkipSegment
    \/ DimensionsRead
    \/ CompareSheetNumber
    \/ CheckBounds
    \/ HandleException

Spec == Init /\ [][Next]_vars

-----------------------------------------------------------------------------
(* The command-line entry point main                                       *)

ScriptName == <<"v", ".", "p", "y">>

UploadPath == <<"/", "t", "/", "u", ".", "t", "m", "p">>

\* the inputs of validate_map_file whose filename is one of the named ones
MainInputs ==
    {input \in ValidateInputs :
        input[1] \in NamesUnderTest \cup RejectedNamesUnderTest}

\* sys.argv: the script alone, one path, a path and an original filename
\* (possibly empty), one argument too many
MainArgvs ==
    {<<ScriptName>>, <<ScriptName, UploadPath, <<>>, <<>>>>,
     <<ScriptName, UploadPath, <<>>>>}
    \cup {<<ScriptName, <<"/", "t", "/">> \o n>> : n \in NamesUnderTest}
    \cup {<<ScriptName, UploadPath, n>> :
            n \in NamesUnderTest \cup RejectedNamesUnderTest}

\* the name validate_map_file checks (line 328): original_filename unless it
\* is missing or empty, else the name of zip_path
FilenameToCheck(args) ==
    IF Len(args) = 3 /\ args[3] # <<>> THEN args[3] ELSE PathName(args[2])

\* the archives main is run on under a given name
MainArchives(name) ==
    LET tested == {input[2] : input \in {i \in MainInputs : i[1] = name}}
    IN  IF tested = {} THEN {DefaultArchive} ELSE tested

InitMain ==
    /\ argv \in MainArgvs
    /\ path_exists \in BOOLEAN
    /\ archive \in IF Len(argv) \in {2, 3} /\ path_exists
                      THEN MainArchives(FilenameToCheck(argv))
                      ELSE {DefaultArchive}
    /\ filename = <<>>
    /\ sheetResult = Unset
    /\ diagResult = UnsetMsg
    /\ lambdaResult = UnsetLambda
    /\ JpgIdle
    /\ pc = "main"
    /\ result = EmptyResult
    /\ temp_dir = FALSE
    /\ transform = NoTransform
    /\ exc = "None"
    /\ exit_code = 0 - 1
    /\ stdout = <<>>
    /\ BatchIdle
    /\ PipeIdle
    /\ MapItemIdle

\* a status that treats a warning as a failure
ExitStatus_warningFails(res) == IF res.valid /\ res.warning = NoMsg THEN 0 ELSE 1

\* line 448
ExitStatus(res) == IF res.valid THEN 0 ELSE 1

\* lines 425-441: the argument count, the path, the call of validate_map_file
MainCheckArguments ==
    /\ pc = "main"
    /\ IF Len(argv) \notin {2, 3}
         THEN /\ stdout' = <<"error", "Usage: validate_map.py <zip_file_path> [original_filename]">>
              /\ exit_code' = 1
              /\ pc' = "exited"
              /\ UNCHANGED filename
       ELSE IF ~path_exists
         THEN /\ stdout' = <<"error", "File not found:">>
              /\ exit_code' = 1
              /\ pc' = "exited"
              /\ UNCHANGED filename
       ELSE /\ filename' = FilenameToCheck(argv)
            /\ pc' = "start"
            /\ UNCHANGED <<stdout, exit_code>>
    /\ UNCHANGED <<sheetResult, diagResult, lambdaResult, jpgVars,
                   archive, result, temp_dir, transform, exc, argv, path_exists,
                   batchVars, pipeVars, mapItemVars>>

\* lines 443-448: the result is printed and decides the exit status
MainExit ==
    /\ pc = "done"
    /\ stdout' = <<"result", result>>
    /\ exit_code' = ExitStatus(result)
    /\ pc' = "exited"
    /\ UNCHANGED <<fnVars, jpgVars, archive, result, temp_dir, transform, exc,
                   argv, path_exists, batchVars, pipeVars, mapItemVars>>

NextMain == MainCheckArguments \/ Next \/ MainExit

SpecMain == InitMain /\ [][NextMain]_vars

-----------------------------------------------------------------------------
(* A batch upload: input_handler invocations and processor tasks            *)
(* (infra/lambda/input_handler/handler.py, infra/ecs_processor/processor.py) *)

MaxFiles == 2

Files == 1..MaxFiles

MaxTasks == 3

Tasks == 1..MaxTasks

\* one name validate_filename accepts, one it rejects
UploadNames ==
    { <<"1", "_", "4", "3", "3", "8", "5", "7", ".", "z", "i", "p">>,
      <<"4", "3", "3", "8", "5", "7", ".", "z", "i", "p">> }

\* handler.py line 385: what validate_filename returns for each upload name
UploadVerdicts == [n \in UploadNames |-> validate_filename(n)]

NoJob ==
    [exists |-> FALSE, status |-> "None", batchSize |-> 0,
     processedCount |-> 0, failedCount |-> 0]

NoMap == [status |-> "None", errorMessage |-> NoMsg]

NoIncrements == [processedCount |-> 0, failedCount |-> 0]

\* the records of the batch as S3 delivers them: one event holding the
\* records of files 1..k, one event for each other file
EventsOf(k) ==
    [i \in 1..(MaxFiles - k + 1) |->
        IF i = 1 THEN [r \in 1..k |-> r] ELSE <<k + i - 1>>]

Invocations == DOMAIN events

\* the file of the record invocation i is at
CurrentFile(i) == events[i][hidx[i]]

\* a put_item that overwrites whatever is there
create_or_get_job_unconditional(item, batch_size) ==
    [job |-> [exists |-> TRUE, status |-> "QUEUED", batchSize |-> batch_size,
              processedCount |-> 0, failedCount |-> 0],
     returned |-> TRUE]

\* handler.py lines 192-232: the conditional put_item of the job item
create_or_get_job(item, batch_size) ==
    IF ~item.exists
      THEN [job |-> [exists |-> TRUE, status |-> "QUEUED", batchSize |-> batch_size,
                     processedCount |-> 0, failedCount |-> 0],
            returned |-> TRUE]
      ELSE [job |-> item, returned |-> FALSE]

\* a rule under which any failed file fails the job
final_status_after_failure_anyFails(processed, failed, batch_size) ==
    IF failed > 0 THEN "FAILED" ELSE "COMPLETED"

\* processor.py lines 100-109
final_status_after_success(processed, failed, batch_size) ==
    IF failed = 0 THEN "COMPLETED"
    ELSE IF processed = 0 THEN "FAILED"
    ELSE "PARTIAL_SUCCESS"

\* processor.py lines 155-164
final_status_after_failure(processed, failed, batch_size) ==
    IF failed = batch_size THEN "FAILED"
    ELSE IF processed = batch_size THEN "COMPLETED"
    ELSE "PARTIAL_SUCCESS"

InitBatch ==
    /\ filename = <<>>
    /\ sheetResult = Unset
    /\ diagResult = UnsetMsg
    /\ lambdaResult = UnsetLambda
    /\ JpgIdle
    /\ ValIdle
    /\ MainIdle
    /\ uploads \in [Files -> UploadNames]
    /\ \E k \in 1..MaxFiles : events = EventsOf(k)
    /\ job = NoJob
    /\ maps = [f \in Files |-> NoMap]
    /\ hpc = [i \in DOMAIN events |-> "validate"]
    /\ hidx = [i \in DOMAIN events |-> 1]
    /\ ecs_launched = [i \in DOMAIN events |-> FALSE]
    /\ records = [i \in DOMAIN events |-> <<>>]
    /\ created = [f \in Files |-> "none"]
    /\ ecs_tasks = [f \in Files |-> 0]
    /\ fallback_invocations = [f \in Files |-> 0]
    /\ tpc = [f \in Files |-> "none"]
    /\ attrs = [f \in Files |-> NoJob]
    /\ final_status = [f \in Files |-> "None"]
    /\ increments = [f \in Files |-> NoIncrements]
    /\ outputs = [f \in Files |-> "none"]
    /\ fpc = [f \in Files |-> "none"]
    /\ MapItemIdle

unchangedOutsideBatch == UNCHANGED <<fnVars, jpgVars, valVars, mainVars, mapItemVars>>

unchangedElsewhere == unchangedOutsideBatch /\ UNCHANGED pipeVars

\* the end of one pass of the loop over event["Records"]
NextRecord(i, record) ==
    /\ records' = [records EXCEPT ![i] = Append(@, record)]
    /\ hidx' = [hidx EXCEPT ![i] = @ + 1]
    /\ hpc' = [hpc EXCEPT ![i] =
                  IF hidx[i] = Len(events[i]) THEN "returned" ELSE "validate"]

\* a handler that dispatches every file, whatever validate_filename says
ValidateAndCreateJob_unchecked(i) ==
    /\ hpc[i] = "validate"
    /\ LET f == CurrentFile(i)
           call == create_or_get_job(job, MaxFiles)
       IN  /\ job' = call.job
           /\ created' = [created EXCEPT ![f] = IF call.returned THEN "True" ELSE "False"]
           /\ hpc' = [hpc EXCEPT ![i] =
                         "create_map"]
    /\ UNCHANGED <<uploads, events, maps, hidx, ecs_launched, records, ecs_tasks,
                   fallback_invocations, tpc, attrs, final_status>>
    /\ unchangedElsewhere

\* handler.py lines 372-400 and 434-457: validate_filename, the metadata,
\* create_or_get_job with the batch size the frontend recorded
ValidateAndCreateJob(i) ==
    /\ hpc[i] = "validate"
    /\ LET f == CurrentFile(i)
           call == create_or_get_job(job, MaxFiles)
       IN  /\ job' = call.job
           /\ created' = [created EXCEPT ![f] = IF call.returned THEN "True" ELSE "False"]
           /\ hpc' = [hpc EXCEPT ![i] =
                         IF UploadVerdicts[uploads[f]].is_valid
                           THEN "create_map" ELSE "put_failed_map"]
    /\ UNCHANGED <<uploads, events, maps, hidx, ecs_launched, records, ecs_tasks,
                   fallback_invocations, tpc, attrs, final_status>>
    /\ unchangedElsewhere

\* handler.py lines 402-432: the FAILED map item and the FAILED record
PutFailedMap(i) ==
    /\ hpc[i] = "put_failed_map"
    /\ LET f == CurrentFile(i)
           error_msg == UploadVerdicts[uploads[f]].error
       IN  /\ maps' = [maps EXCEPT ![f] =
                          [status |-> "FAILED",
                           errorMessage |-> Msg("Invalid filename format:", 0,
                                                <<error_msg.kind>>)]]
           /\ NextRecord(i, [file |-> f, status |-> "FAILED",
                             error |-> Msg("Invalid filename:", 0, <<error_msg.kind>>)])
    /\ UNCHANGED <<uploads, events, job, ecs_launched, created, ecs_tasks,
                   fallback_invocations, tpc, attrs, final_status>>
    /\ unchangedElsewhere

\* handler.py lines 459-462 and 131-189: create_map_entry, new or retried
CreateMapEntry(i) ==
    /\ hpc[i] = "create_map"
    /\ maps' = [maps EXCEPT ![CurrentFile(i)] =
                   [status |-> "QUEUED", errorMessage |-> NoMsg]]
    /\ hpc' = [hpc EXCEPT ![i] = "launch"]
    /\ UNCHANGED <<uploads, events, job, hidx, ecs_launched, records, created,
                   ecs_tasks, fallback_invocations, tpc, attrs, final_status>>
    /\ unchangedElsewhere

\* what ecs_client.run_task can do: start a task, answer without a task
\* (failures reported in the response), raise ClientError
RunTaskOutcomes == {"task", "no_tasks", "ClientError"}

\* handler.py lines 464-468 and 305-352: launch_ecs_task
LaunchEcsTask(i) ==
    /\ hpc[i] = "launch"
    /\ \E outcome \in RunTaskOutcomes :
          LET f == CurrentFile(i)
              returned == outcome # "ClientError"
          IN  /\ ecs_launched' = [ecs_launched EXCEPT ![i] = returned]
              /\ IF outcome = "task"
                   THEN /\ ecs_tasks' = [ecs_tasks EXCEPT ![f] = @ + 1]
                        /\ tpc' = [tpc EXCEPT ![f] = "start"]
                   ELSE UNCHANGED <<ecs_tasks, tpc>>
              /\ hpc' = [hpc EXCEPT ![i] =
                            IF returned THEN "dispatch_job" ELSE "fallback"]
    /\ UNCHANGED <<uploads, events, job, maps, hidx, records, created,
                   fallback_invocations, attrs, final_status>>
    /\ unchangedElsewhere

\* handler.py lines 500-519: the asynchronous invocation of the fallback
\* Lambda, which can raise ClientError
InvokeFallback(i) ==
    /\ hpc[i] = "fallback"
    /\ \E invoked \in BOOLEAN :
          IF invoked
            THEN /\ fallback_invocations' =
                        [fallback_invocations EXCEPT ![CurrentFile(i)] = @ + 1]
                 /\ fpc' = [fpc EXCEPT ![CurrentFile(i)] = "start"]
                 /\ hpc' = [hpc EXCEPT ![i] = "dispatch_job"]
            ELSE /\ hpc' = [hpc EXCEPT ![i] = "mark_failed"]
                 /\ UNCHANGED <<fallback_invocations, fpc>>
    /\ UNCHANGED <<uploads, events, job, maps, hidx, ecs_launched, records, created,
                   ecs_tasks, tpc, attrs, final_status, increments, outputs>>
    /\ unchangedOutsideBatch

\* handler.py lines 470-478 and 521-530
SetJobDispatched(i) ==
    /\ hpc[i] = "dispatch_job"
    /\ job' = [job EXCEPT !.status = "DISPATCHED"]
    /\ hpc' = [hpc EXCEPT ![i] = "dispatch_map"]
    /\ UNCHANGED <<uploads, events, maps, hidx, ecs_launched, records, created,
                   ecs_tasks, fallback_invocations, tpc, attrs, final_status>>
    /\ unchangedElsewhere

\* handler.py lines 480-499 and 532-551
SetMapDispatched(i) ==
    /\ hpc[i] = "dispatch_map"
    /\ LET f == CurrentFile(i)
       IN  /\ maps' = [maps EXCEPT ![f].status = "DISPATCHED"]
           /\ NextRecord(i, [file |-> f, status |-> "DISPATCHED", error |-> NoMsg])
    /\ UNCHANGED <<uploads, events, job, ecs_launched, created, ecs_tasks,
                   fallback_invocations, tpc, attrs, final_status>>
    /\ unchangedElsewhere

\* handler.py lines 552-564 and 289-302: the dispatch raised ClientError
MarkFailed(i) ==
    /\ hpc[i] = "mark_failed"
    /\ job' = [job EXCEPT !.status = "FAILED"]
    /\ NextRecord(i, [file |-> CurrentFile(i), status |-> "FAILED",
                      error |-> Msg("ClientError", 0, <<>>)])
    /\ UNCHANGED <<uploads, events, maps, ecs_launched, created, ecs_tasks,
                   fallback_invocations, tpc, attrs, final_status>>
    /\ unchangedElsewhere

\* processor.py lines 339-342: update_job_status(JOB_ID, 'PROCESSING')
TaskSetProcessing(f) ==
    /\ tpc[f] = "start"
    /\ job' = [job EXCEPT !.status = "PROCESSING"]
    /\ tpc' = [tpc EXCEPT ![f] = "copy"]
    /\ UNCHANGED <<uploads, events, maps, hpc, hidx, ecs_launched, records, created,
                   ecs_tasks, fallback_invocations, attrs, final_status>>
    /\ unchangedElsewhere

\* processor.py lines 344-351 and 282-304: process_file copies or raises
TaskProcessFile(f) ==
    /\ tpc[f] = "copy"
    /\ \E copied \in BOOLEAN :
          /\ tpc' = [tpc EXCEPT ![f] = IF copied THEN "map_output" ELSE "mark_map_failed"]
          /\ outputs' = [outputs EXCEPT ![f] = IF copied THEN "created" ELSE @]
    /\ UNCHANGED <<uploads, events, job, maps, hpc, hidx, ecs_launched, records,
                   created, ecs_tasks, fallback_invocations, attrs, final_status,
                   increments, fpc>>
    /\ unchangedOutsideBatch

\* processor.py lines 353-355 and 176-227: update_map_output
TaskUpdateMapOutput(f) ==
    /\ tpc[f] = "map_output"
    /\ maps' = [maps EXCEPT ![f].status = "COMPLETED"]
    /\ tpc' = [tpc EXCEPT ![f] = "increment_processed"]
    /\ UNCHANGED <<uploads, events, job, hpc, hidx, ecs_launched, records, created,
                   ecs_tasks, fallback_invocations, attrs, final_status>>
    /\ unchangedElsewhere

\* processor.py lines 357-360 and 76-115: the atomic increment, the counts
\* it returned, the choice of the final status
TaskIncrementProcessed(f) ==
    /\ tpc[f] = "increment_processed"
    /\ LET new == [job EXCEPT !.processedCount = @ + 1]
       IN  /\ job' = new
           /\ attrs' = [attrs EXCEPT ![f] = new]
           /\ increments' = [increments EXCEPT ![f].processedCount = @ + 1]
           /\ IF new.processedCount + new.failedCount >= new.batchSize
                THEN /\ final_status' = [final_status EXCEPT ![f] =
                            final_status_after_success(new.processedCount,
                                                       new.failedCount, new.batchSize)]
                     /\ tpc' = [tpc EXCEPT ![f] = "set_final_status"]
                ELSE /\ tpc' = [tpc EXCEPT ![f] = "exited"]
                     /\ UNCHANGED final_status
    /\ UNCHANGED <<uploads, events, maps, hpc, hidx, ecs_launched, records, created,
                   ecs_tasks, fallback_invocations, outputs, fpc>>
    /\ unchangedOutsideBatch

\* processor.py lines 370-376 and 230-279: mark_map_failed
TaskMarkMapFailed(f) ==
    /\ tpc[f] = "mark_map_failed"
    /\ maps' = [maps EXCEPT ![f] =
                   [status |-> "FAILED", errorMessage |-> Msg("ClientError", 0, <<>>)]]
    /\ tpc' = [tpc EXCEPT ![f] = "increment_failed"]
    /\ UNCHANGED <<uploads, events, job, hpc, hidx, ecs_launched, records, created,
                   ecs_tasks, fallback_invocations, attrs, final_status>>
    /\ unchangedElsewhere

\* processor.py lines 378-386 and 130-170: increment_failed_count
TaskIncrementFailed(f) ==
    /\ tpc[f] = "increment_failed"
    /\ LET new == [job EXCEPT !.failedCount = @ + 1]
       IN  /\ job' = new
           /\ attrs' = [attrs EXCEPT ![f] = new]
           /\ increments' = [increments EXCEPT ![f].failedCount = @ + 1]
           /\ IF new.processedCount + new.failedCount >= new.batchSize
                THEN /\ final_status' = [final_status EXCEPT ![f] =
                            final_status_after_failure(new.processedCount,
                                                       new.failedCount, new.batchSize)]
                     /\ tpc' = [tpc EXCEPT ![f] = "set_final_status"]
                ELSE /\ tpc' = [tpc EXCEPT ![f] = "exited"]
                     /\ UNCHANGED final_status
    /\ UNCHANGED <<uploads, events, maps, hpc, hidx, ecs_launched, records, created,
                   ecs_tasks, fallback_invocations, outputs, fpc>>
    /\ unchangedOutsideBatch

\* processor.py lines 112 and 167: update_job_status(job_id, final_status)
TaskSetFinalStatus(f) ==
    /\ tpc[f] = "set_final_status"
    /\ job' = [job EXCEPT !.status = final_status[f]]
    /\ tpc' = [tpc EXCEPT ![f] = "exited"]
    /\ UNCHANGED <<uploads, events, maps, hpc, hidx, ecs_launched, records, created,
                   ecs_tasks, fallback_invocations, attrs, final_status>>
    /\ unchangedElsewhere

NextHandler ==
    \E i \in Invocations :
        \/ ValidateAndCreateJob(i)
        \/ PutFailedMap(i)
        \/ CreateMapEntry(i)
        \/ LaunchEcsTask(i)
        \/ InvokeFallback(i)
        \/ SetJobDispatched(i)
        \/ SetMapDispatched(i)
        \/ MarkFailed(i)

NextTask ==
    \E f \in DOMAIN tpc :
        \/ TaskSetProcessing(f)
        \/ TaskProcessFile(f)
        \/ TaskUpdateMapOutput(f)
        \/ TaskIncrementProcessed(f)
        \/ TaskMarkMapFailed(f)
        \/ TaskIncrementFailed(f)
        \/ TaskSetFinalStatus(f)

NextBatch == NextHandler \/ NextTask

SpecBatch == InitBatch /\ [][NextBatch]_vars

\* every invocation and every task is a sequential program that runs to its
\* end: a step that can be taken is eventually taken
SpecBatchFair == SpecBatch /\ WF_vars(NextBatch)

\* the N tasks of a batch whose N files were all dispatched to ECS
InitTasks ==
    /\ filename = <<>>
    /\ sheetResult = Unset
    /\ diagResult = UnsetMsg
    /\ lambdaResult = UnsetLambda
    /\ JpgIdle
    /\ ValIdle
    /\ MainIdle
    /\ uploads = [f \in Tasks |-> CHOOSE n \in UploadNames : validate_filename(n).is_valid]
    /\ events = [i \in Tasks |-> <<i>>]
    /\ job = [exists |-> TRUE, status |-> "DISPATCHED", batchSize |-> MaxTasks,
              processedCount |-> 0, failedCount |-> 0]
    /\ maps = [f \in Tasks |-> [status |-> "DISPATCHED", errorMessage |-> NoMsg]]
    /\ hpc = [i \in DOMAIN events |-> "returned"]
    /\ hidx = [i \in DOMAIN events |-> 2]
    /\ ecs_launched = [i \in DOMAIN events |-> TRUE]
    /\ records = [i \in DOMAIN events |->
                     <<[file |-> i, status |-> "DISPATCHED", error |-> NoMsg]>>]
    /\ created = [f \in Tasks |-> IF f = 1 THEN "True" ELSE "False"]
    /\ ecs_tasks = [f \in Tasks |-> 1]
    /\ fallback_invocations = [f \in Tasks |-> 0]
    /\ tpc = [f \in Tasks |-> "start"]
    /\ attrs = [f \in Tasks |-> NoJob]
    /\ final_status = [f \in Tasks |-> "None"]
    /\ increments = [f \in Tasks |-> NoIncrements]
    /\ outputs = [f \in Tasks |-> "none"]
    /\ fpc = [f \in Tasks |-> "none"]
    /\ MapItemIdle

SpecTasks == InitTasks /\ [][NextTask]_vars

-----------------------------------------------------------------------------
(* The processor task when a DynamoDB call raises ClientError               *)
(* (infra/ecs_processor/processor.py): every exception raised inside the   *)
(* try block of main goes to its except branch, which marks the map FAILED *)
(* and calls increment_failed_count                                        *)

\* processor.py lines 339-342, 61-63: update_job_status('PROCESSING') raises
TaskSetProcessingFails(f) ==
    /\ tpc[f] = "start"
    /\ tpc' = [tpc EXCEPT ![f] = "mark_map_failed"]
    /\ UNCHANGED <<uploads, events, job, maps, hpc, hidx, ecs_launched, records, created,
                   ecs_tasks, fallback_invocations, attrs, final_status>>
    /\ unchangedElsewhere

\* processor.py lines 353-355, 222-227: update_map_output raises
TaskUpdateMapOutputFails(f) ==
    /\ tpc[f] = "map_output"
    /\ tpc' = [tpc EXCEPT ![f] = "mark_map_failed"]
    /\ UNCHANGED <<uploads, events, job, maps, hpc, hidx, ecs_launched, records, created,
                   ecs_tasks, fallback_invocations, attrs, final_status>>
    /\ unchangedElsewhere

\* processor.py lines 76-86, 116-118: the update_item of
\* increment_processed_count raises, the counter is not incremented
TaskIncrementProcessedFails(f) ==
    /\ tpc[f] = "increment_processed"
    /\ tpc' = [tpc EXCEPT ![f] = "mark_map_failed"]
    /\ UNCHANGED <<uploads, events, job, maps, hpc, hidx, ecs_launched, records, created,
                   ecs_tasks, fallback_invocations, attrs, final_status>>
    /\ unchangedElsewhere

\* processor.py lines 112, 61-63: update_job_status(final_status) raises.
\* Inside increment_processed_count (no failure counted yet) the exception
\* reaches main's except branch (lines 116-118, 365); inside
\* increment_failed_count it is caught and logged at lines 389-390.
TaskSetFinalStatusFails(f) ==
    /\ tpc[f] = "set_final_status"
    /\ tpc' = [tpc EXCEPT ![f] =
                  IF increments[f].failedCount = 0 THEN "mark_map_failed" ELSE "exited"]
    /\ UNCHANGED <<uploads, events, job, maps, hpc, hidx, ecs_launched, records, created,
                   ecs_tasks, fallback_invocations, attrs, final_status>>
    /\ unchangedElsewhere

\* processor.py lines 371-376: mark_map_failed raises, the error is logged
TaskMarkMapFailedFails(f) ==
    /\ tpc[f] = "mark_map_failed"
    /\ tpc' = [tpc EXCEPT ![f] = "increment_failed"]
    /\ UNCHANGED <<uploads, events, job, maps, hpc, hidx, ecs_launched, records, created,
                   ecs_tasks, fallback_invocations, attrs, final_status>>
    /\ unchangedElsewhere

\* processor.py lines 379-384: the update_item of increment_failed_count
\* raises, the error is logged and the task exits
TaskIncrementFailedFails(f) ==
    /\ tpc[f] = "increment_failed"
    /\ tpc' = [tpc EXCEPT ![f] = "exited"]
    /\ UNCHANGED <<uploads, events, job, maps, hpc, hidx, ecs_launched, records, created,
                   ecs_tasks, fallback_invocations, attrs, final_status>>
    /\ unchangedElsewhere

NextTaskFault ==
    \E f \in DOMAIN tpc :
        \/ TaskSetProcessingFails(f)
        \/ TaskUpdateMapOutputFails(f)
        \/ TaskIncrementProcessedFails(f)
        \/ TaskSetFinalStatusFails(f)
        \/ TaskMarkMapFailedFails(f)
        \/ TaskIncrementFailedFails(f)

NextTasksFaulty == NextTask \/ NextTaskFault

\* the tasks of a batch with DynamoDB calls that can fail
SpecTasksFaulty == InitTasks /\ [][NextTasksFaulty]_vars

-----------------------------------------------------------------------------
(* The fallback Lambda (infra/lambda/s3_copy_processor/handler.py) and the *)
(* Lambda triggered by objects created in the output bucket                *)
(* (infra/lambda/output_handler/handler.py)                                *)

\* s3_copy_processor lines 48-49
fallback_completes(processed, batch_size) ==
    batch_size > 0 /\ processed >= batch_size

\* s3_copy_processor lines 178-187: job status PROCESSING
FallbackSetJobProcessing(f) ==
    /\ fpc[f] = "start"
    /\ job' = [job EXCEPT !.status = "PROCESSING"]
    /\ fpc' = [fpc EXCEPT ![f] = "map_processing"]
    /\ UNCHANGED <<uploads, events, maps, hpc, hidx, ecs_launched, records, created,
                   ecs_tasks, fallback_invocations, tpc, attrs, final_status,
                   increments, outputs>>
    /\ unchangedOutsideBatch

\* s3_copy_processor lines 189-204: map status PROCESSING
FallbackSetMapProcessing(f) ==
    /\ fpc[f] = "map_processing"
    /\ maps' = [maps EXCEPT ![f].status = "PROCESSING"]
    /\ fpc' = [fpc EXCEPT ![f] = "copy"]
    /\ UNCHANGED <<uploads, events, job, hpc, hidx, ecs_launched, records, created,
                   ecs_tasks, fallback_invocations, tpc, attrs, final_status,
                   increments, outputs>>
    /\ unchangedOutsideBatch

\* s3_copy_processor lines 206-224: copy_object creates the output object or
\* raises ClientError
FallbackCopy(f) ==
    /\ fpc[f] = "copy"
    /\ \E copied \in BOOLEAN :
          /\ fpc' = [fpc EXCEPT ![f] = IF copied THEN "map_output" ELSE "fail_job"]
          /\ outputs' = [outputs EXCEPT ![f] = IF copied THEN "created" ELSE @]
    /\ UNCHANGED <<uploads, events, job, maps, hpc, hidx, ecs_launched, records,
                   created, ecs_tasks, fallback_invocations, tpc, attrs, final_status,
                   increments>>
    /\ unchangedOutsideBatch

\* s3_copy_processor lines 226-227 and 69-102: update_map_output
FallbackUpdateMapOutput(f) ==
    /\ fpc[f] = "map_output"
    /\ maps' = [maps EXCEPT ![f].status = "COMPLETED"]
    /\ fpc' = [fpc EXCEPT ![f] = "increment"]
    /\ UNCHANGED <<uploads, events, job, hpc, hidx, ecs_launched, records, created,
                   ecs_tasks, fallback_invocations, tpc, attrs, final_status,
                   increments, outputs>>
    /\ unchangedOutsideBatch

\* s3_copy_processor lines 229-230 and 30-49: the atomic increment and the
\* test on the counts it returned
FallbackIncrementProcessed(f) ==
    /\ fpc[f] = "increment"
    /\ LET new == [job EXCEPT !.processedCount = @ + 1]
       IN  /\ job' = new
           /\ fpc' = [fpc EXCEPT ![f] =
                         IF fallback_completes(new.processedCount, new.batchSize)
                           THEN "complete" ELSE "returned"]
    /\ UNCHANGED <<uploads, events, maps, hpc, hidx, ecs_launched, records, created,
                   ecs_tasks, fallback_invocations, tpc, attrs, final_status,
                   increments, outputs>>
    /\ unchangedOutsideBatch

\* s3_copy_processor lines 50-60: job status COMPLETED
FallbackSetCompleted(f) ==
    /\ fpc[f] = "complete"
    /\ job' = [job EXCEPT !.status = "COMPLETED"]
    /\ fpc' = [fpc EXCEPT ![f] = "returned"]
    /\ UNCHANGED <<uploads, events, maps, hpc, hidx, ecs_launched, records, created,
                   ecs_tasks, fallback_invocations, tpc, attrs, final_status,
                   increments, outputs>>
    /\ unchangedOutsideBatch

\* s3_copy_processor lines 241-259: after ClientError, job status FAILED
FallbackFailJob(f) ==
    /\ fpc[f] = "fail_job"
    /\ job' = [job EXCEPT !.status = "FAILED"]
    /\ fpc' = [fpc EXCEPT ![f] = "fail_map"]
    /\ UNCHANGED <<uploads, events, maps, hpc, hidx, ecs_launched, records, created,
                   ecs_tasks, fallback_invocations, tpc, attrs, final_status,
                   increments, outputs>>
    /\ unchangedOutsideBatch

\* s3_copy_processor lines 261-278: after ClientError, map status FAILED
FallbackFailMap(f) ==
    /\ fpc[f] = "fail_map"
    /\ maps' = [maps EXCEPT ![f] =
                   [status |-> "FAILED", errorMessage |-> Msg("ClientError", 0, <<>>)]]
    /\ fpc' = [fpc EXCEPT ![f] = "returned"]
    /\ UNCHANGED <<uploads, events, job, hpc, hidx, ecs_launched, records, created,
                   ecs_tasks, fallback_invocations, tpc, attrs, final_status,
                   increments, outputs>>
    /\ unchangedOutsideBatch

\* output_handler lines 114-152 and 26-55: for the object created in the
\* output bucket, head_object gives the jobid metadata copied from the
\* upload and finalize_job sets the job COMPLETED; when head_object raises,
\* job_id is still None and nothing is written
OutputHandler(f) ==
    /\ outputs[f] = "created"
    /\ \E head_found \in BOOLEAN :
          job' = IF head_found THEN [job EXCEPT !.status = "COMPLETED"] ELSE job
    /\ outputs' = [outputs EXCEPT ![f] = "handled"]
    /\ UNCHANGED <<uploads, events, maps, hpc, hidx, ecs_launched, records, created,
                   ecs_tasks, fallback_invocations, tpc, attrs, final_status,
                   increments, fpc>>
    /\ unchangedOutsideBatch

NextFallback ==
    \E f \in DOMAIN fpc :
        \/ FallbackSetJobProcessing(f)
        \/ FallbackSetMapProcessing(f)
        \/ FallbackCopy(f)
        \/ FallbackUpdateMapOutput(f)
        \/ FallbackIncrementProcessed(f)
        \/ FallbackSetCompleted(f)
        \/ FallbackFailJob(f)
        \/ FallbackFailMap(f)

NextOutput == \E f \in DOMAIN outputs : OutputHandler(f)

NextPipeline == NextBatch \/ NextFallback \/ NextOutput

\* a batch upload with every component that writes the job's status
SpecPipeline == InitBatch /\ [][NextPipeline]_vars

-----------------------------------------------------------------------------
(* One map uploaded several times: the item of the maps table under one    *)
(* (mapId, mapName), written by create_map_entry and the dispatch of       *)
(* input_handler, by the processor task of each upload and by              *)
(* ecs_state_handler. Upload u belongs to job u (batchSize 1); absent      *)
(* attributes are "None", 0 or hasRetryCount = FALSE. Timestamps are       *)
(* numbers that tell the writers apart: u for the input_handler pass of    *)
(* upload u, 10 + u for its task, StateChangeTime for ecs_state_handler.   *)

MaxUploads == 3

Uploads == 1..MaxUploads

StateChangeTime == 20

NoItem ==
    [exists |-> FALSE, status |-> "None", jobId |-> 0, createdAt |-> 0,
     updatedAt |-> 0, hasRetryCount |-> FALSE, retryCount |-> 0,
     errorMessage |-> NoMsg, taskStartedAt |-> 0, taskStoppedAt |-> 0,
     taskArn |-> 0]

\* an update_item on a key without an item creates the item
Upsert(it) == [it EXCEPT !.exists = TRUE]

\* handler.py lines 139-150: the Item of the conditional put_item
new_map_item(job_id, timestamp) ==
    [NoItem EXCEPT !.exists = TRUE, !.status = "QUEUED", !.jobId = job_id,
                   !.createdAt = timestamp]

\* a retry update that sets the counter to 1
retry_update_setsOne(it, job_id, timestamp) ==
    [Upsert(it) EXCEPT !.status = "QUEUED", !.jobId = job_id,
                       !.updatedAt = timestamp, !.hasRetryCount = TRUE,
                       !.retryCount = 1, !.errorMessage = NoMsg]

\* handler.py lines 166-184: SET #status = :status, jobId = :jobId,
\* updatedAt = :updated, #retry = if_not_exists(#retry, :zero) + :inc
\* REMOVE errorMessage
retry_update(it, job_id, timestamp) ==
    [Upsert(it) EXCEPT !.status = "QUEUED", !.jobId = job_id,
                       !.updatedAt = timestamp, !.hasRetryCount = TRUE,
                       !.retryCount = (IF it.hasRetryCount THEN it.retryCount ELSE 0) + 1,
                       !.errorMessage = NoMsg]

\* a timing update that also marks the map FAILED when the task stopped
update_map_timing_marksFailed(it, field_name, timestamp, task_arn) ==
    IF field_name = "taskStartedAt"
      THEN [Upsert(it) EXCEPT !.taskStartedAt = timestamp, !.updatedAt = timestamp,
                              !.taskArn = task_arn]
      ELSE [Upsert(it) EXCEPT !.taskStoppedAt = timestamp, !.updatedAt = timestamp,
                              !.taskArn = task_arn, !.status = "FAILED"]

\* ecs_state_handler lines 98-120: SET <field_name> = :ts, updatedAt = :updated,
\* taskArn = :taskArn
update_map_timing(it, field_name, timestamp, task_arn) ==
    IF field_name = "taskStartedAt"
      THEN [Upsert(it) EXCEPT !.taskStartedAt = timestamp, !.updatedAt = timestamp,
                              !.taskArn = task_arn]
      ELSE [Upsert(it) EXCEPT !.taskStoppedAt = timestamp, !.updatedAt = timestamp,
                              !.taskArn = task_arn]

\* the state-change events under test: without detail, without taskArn or
\* clusterArn, with a task describe_tasks gives no map for, and for a task
\* of the map with lastStatus PENDING, RUNNING or STOPPED, the update_item
\* succeeding or raising ClientError
EcsEvent(detail, arns, found, last_status, write_ok) ==
    [detail |-> detail, arns |-> arns, found |-> found,
     lastStatus |-> last_status, write_ok |-> write_ok]

EcsEvents ==
    { EcsEvent(FALSE, FALSE, FALSE, "RUNNING", TRUE),
      EcsEvent(TRUE, FALSE, FALSE, "RUNNING", TRUE),
      EcsEvent(TRUE, TRUE, FALSE, "STOPPED", TRUE),
      EcsEvent(TRUE, TRUE, TRUE, "PENDING", TRUE),
      EcsEvent(TRUE, TRUE, TRUE, "RUNNING", TRUE),
      EcsEvent(TRUE, TRUE, TRUE, "RUNNING", FALSE),
      EcsEvent(TRUE, TRUE, TRUE, "STOPPED", TRUE),
      EcsEvent(TRUE, TRUE, TRUE, "STOPPED", FALSE) }

NoEvent == EcsEvent(FALSE, FALSE, FALSE, "None", FALSE)

InitMapItem ==
    /\ filename = <<>>
    /\ sheetResult = Unset
    /\ diagResult = UnsetMsg
    /\ lambdaResult = UnsetLambda
    /\ JpgIdle
    /\ ValIdle
    /\ MainIdle
    /\ BatchIdle
    /\ PipeIdle
    /\ map_item = NoItem
    /\ upc = [u \in Uploads |-> "uploaded"]
    /\ via = [u \in Uploads |-> "none"]
    /\ mjob = [u \in Uploads |-> "None"]
    /\ mtpc = [u \in Uploads |-> "none"]
    /\ last_event = NoEvent

unchangedOutsideMapItem ==
    UNCHANGED <<fnVars, jpgVars, valVars, mainVars, batchVars, pipeVars>>

\* handler.py lines 442-457: create_or_get_job for the upload's own job.
\* The map is uploaded again once the attempt before it has ended: its
\* invocation has returned, its task, if one started, has exited, and the
\* state-change events of that task have been delivered.
UploadCreateJob(u) ==
    /\ upc[u] = "uploaded"
    /\ \A v \in Uploads : v < u => (upc[v] = "returned" /\ mtpc[v] \in {"none", "exited"})
    /\ mjob' = [mjob EXCEPT ![u] = "QUEUED"]
    /\ upc' = [upc EXCEPT ![u] = "put"]
    /\ last_event' = NoEvent
    /\ UNCHANGED <<map_item, via, mtpc>>
    /\ unchangedOutsideMapItem

\* handler.py lines 136-155: create_map_entry, the conditional put_item
CreateMapEntryPut(u) ==
    /\ upc[u] = "put"
    /\ IF ~map_item.exists
         THEN /\ map_item' = new_map_item(u, u)
              /\ via' = [via EXCEPT ![u] = "created"]
              /\ upc' = [upc EXCEPT ![u] = "launch"]
         ELSE /\ upc' = [upc EXCEPT ![u] = "update"]
              /\ UNCHANGED <<map_item, via>>
    /\ last_event' = NoEvent
    /\ UNCHANGED <<mjob, mtpc>>
    /\ unchangedOutsideMapItem

\* handler.py lines 156-186: create_map_entry, the update_item after
\* ConditionalCheckFailedException
CreateMapEntryUpdate(u) ==
    /\ upc[u] = "update"
    /\ map_item' = retry_update(map_item, u, u)
    /\ via' = [via EXCEPT ![u] = "updated"]
    /\ upc' = [upc EXCEPT ![u] = "launch"]
    /\ last_event' = NoEvent
    /\ UNCHANGED <<mjob, mtpc>>
    /\ unchangedOutsideMapItem

\* handler.py lines 464-467 and 502-516: launch_ecs_task, run_task starting a
\* task or not (the writes of the fallback Lambda are left out here)
LaunchUploadTask(u) ==
    /\ upc[u] = "launch"
    /\ \E started \in BOOLEAN :
          mtpc' = [mtpc EXCEPT ![u] = IF started THEN "start" ELSE @]
    /\ upc' = [upc EXCEPT ![u] = "dispatch_job"]
    /\ last_event' = NoEvent
    /\ UNCHANGED <<map_item, via, mjob>>
    /\ unchangedOutsideMapItem

\* handler.py lines 469-479 and 518-527: the job of the upload DISPATCHED
DispatchUploadJob(u) ==
    /\ upc[u] = "dispatch_job"
    /\ mjob' = [mjob EXCEPT ![u] = "DISPATCHED"]
    /\ upc' = [upc EXCEPT ![u] = "dispatch_map"]
    /\ last_event' = NoEvent
    /\ UNCHANGED <<map_item, via, mtpc>>
    /\ unchangedOutsideMapItem

\* handler.py lines 481-499 and 529-548: the map DISPATCHED
DispatchUploadMap(u) ==
    /\ upc[u] = "dispatch_map"
    /\ map_item' = [Upsert(map_item) EXCEPT !.status = "DISPATCHED", !.updatedAt = u]
    /\ upc' = [upc EXCEPT ![u] = "returned"]
    /\ last_event' = NoEvent
    /\ UNCHANGED <<via, mjob, mtpc>>
    /\ unchangedOutsideMapItem

\* processor.py lines 339-342: the job of the upload PROCESSING
UploadTaskStart(u) ==
    /\ mtpc[u] = "start"
    /\ mjob' = [mjob EXCEPT ![u] = "PROCESSING"]
    /\ mtpc' = [mtpc EXCEPT ![u] = "copy"]
    /\ last_event' = NoEvent
    /\ UNCHANGED <<map_item, via, upc>>
    /\ unchangedOutsideMapItem

\* processor.py lines 344-355 and 365-375: the copy, then update_map_output
\* (status COMPLETED) or, after an exception, mark_map_failed (status FAILED
\* with the error message)
UploadTaskWriteMap(u) ==
    /\ mtpc[u] = "copy"
    /\ \E copied \in BOOLEAN :
          IF copied
            THEN /\ map_item' = [Upsert(map_item) EXCEPT
                                   !.status = "COMPLETED", !.updatedAt = 10 + u]
                 /\ mtpc' = [mtpc EXCEPT ![u] = "count_processed"]
            ELSE /\ map_item' = [Upsert(map_item) EXCEPT
                                   !.status = "FAILED", !.updatedAt = 10 + u,
                                   !.errorMessage = Msg("ClientError", 0, <<>>)]
                 /\ mtpc' = [mtpc EXCEPT ![u] = "count_failed"]
    /\ last_event' = NoEvent
    /\ UNCHANGED <<via, upc, mjob>>
    /\ unchangedOutsideMapItem

\* processor.py lines 357-363 and 378-386: the counter of the job (batchSize
\* 1) and the final status that follows from it
UploadTaskWriteJob(u) ==
    /\ mtpc[u] \in {"count_processed", "count_failed"}
    /\ mjob' = [mjob EXCEPT ![u] =
                   IF mtpc[u] = "count_processed"
                     THEN final_status_after_success(1, 0, 1)
                     ELSE final_status_after_failure(0, 1, 1)]
    /\ mtpc' = [mtpc EXCEPT ![u] = "exited"]
    /\ last_event' = NoEvent
    /\ UNCHANGED <<map_item, via, upc>>
    /\ unchangedOutsideMapItem

\* ecs_state_handler lines 131-206: lambda_handler on a state-change event
\* of the task of upload u, delivered before the map is uploaded again;
\* last_event holds the event while the step just taken is this invocation
EcsStateChange(u, event) ==
    /\ mtpc[u] # "none"
    /\ \A v \in Uploads : v > u => upc[v] = "uploaded"
    /\ LET timestamp == StateChangeTime
           reaches_update ==
               /\ event.detail /\ event.arns /\ event.found
               /\ event.lastStatus \in {"RUNNING", "STOPPED"}
               /\ event.write_ok
           field_name ==
               IF event.lastStatus = "RUNNING" THEN "taskStartedAt" ELSE "taskStoppedAt"
       IN  /\ last_event' = event
           /\ map_item' = IF reaches_update
                            THEN update_map_timing(map_item, field_name, timestamp, u)
                            ELSE map_item
    /\ UNCHANGED <<upc, via, mjob, mtpc>>
    /\ unchangedOutsideMapItem

NextMapItem ==
    \E u \in Uploads :
        \/ UploadCreateJob(u)
        \/ CreateMapEntryPut(u)
        \/ CreateMapEntryUpdate(u)
        \/ LaunchUploadTask(u)
        \/ DispatchUploadJob(u)
        \/ DispatchUploadMap(u)
        \/ UploadTaskStart(u)
        \/ UploadTaskWriteMap(u)
        \/ UploadTaskWriteJob(u)
        \/ \E event \in EcsEvents : EcsStateChange(u, event)

SpecMapItem == InitMapItem /\ [][NextMapItem]_vars

-----------------------------------------------------------------------------
(* Filename claims                                                         *)

\* name is <seam>_<sheet>[<sep><suffix>].<ext> with a seam of k characters:
\* the seam is letters and digits, the sheet is XXXXXX or XX<sep>XXXX, and
\* what follows is either .<ext> or <sep><suffix>.<ext>
SheetLenAfterSeam(name, k) ==
    IF DigitsAt(name, k + 2, k + 7) THEN 6
    ELSE IF /\ DigitsAt(name, k + 2, k + 3)
            /\ k + 4 <= Len(name) /\ IsSep(name[k + 4])
            /\ DigitsAt(name, k + 5, k + 8) THEN 7
    ELSE 0

HasSeamSheetForm(name, k) ==
    LET n == SheetLenAfterSeam(name, k)
        rest == From(name, k + 2 + n)
        dots == {i \in 1..Len(rest) : rest[i] = "."}
    IN  /\ k >= 1
        /\ k + 1 <= Len(name)
        /\ \A i \in 1..k : IsAlnum(name[i])
        /\ name[k + 1] = "_"
        /\ n > 0
        /\ dots # {}
        /\ \E d \in dots :
              /\ \A i \in (d + 1)..Len(rest) : IsAlnum(rest[i])
              /\ d < Len(rest)
              /\ d = 1 \/ IsSep(rest[1])

SheetDigitsAfterSeam(name, k) ==
    OnlyDigits(SubSeq(name, k + 2, k + 1 + SheetLenAfterSeam(name, k)))

\* C5: every filename of the form <seam>_<sheet>[<sep><suffix>].<ext>, with
\* any non-empty seam of letters and digits (all digits and any length
\* included), is accepted by get_sheet_number_from_filename, which returns
\* the six digits of <sheet>.
C5_SeamSheetFormAccepted ==
    sheetResult # Unset =>
        \A k \in 1..Len(filename) :
            HasSeamSheetForm(filename, k) =>
                sheetResult = SheetDigitsAfterSeam(filename, k)

\* the text of the stem before the leftmost sheet number pattern
TextBeforePattern(name) ==
    LET stem == RSplitDot(name)
    IN  SubSeq(stem, 1, PatternSearch(stem) - 1)

\* C6: a value returned by get_sheet_number_from_filename is exactly six
\* decimal digits, and the stem text before the matched pattern is a
\* non-empty run of letters and digits followed by exactly one '_'.
C6_ReturnedSheetAndSeam ==
    sheetResult \notin {Unset, None} =>
        LET before == TextBeforePattern(filename)
        IN  /\ Len(sheetResult) = 6
            /\ \A i \in 1..6 : IsDigit(sheetResult[i])
            /\ Len(before) >= 2
            /\ before[Len(before)] = "_"
            /\ \A i \in 1..(Len(before) - 1) : IsAlnum(before[i])

\* the case of the grammar a diagnostic names
CaseOfMessage(m) ==
    CASE m.kind = "Missing mandatory underscore separator." -> "separator"
      [] m.kind = "Missing mandatory seam ID before sheet number." -> "seam missing"
      [] m.kind = "Missing mandatory seam ID before underscore." -> "seam missing"
      [] m.kind = "Invalid seam ID." -> "seam invalid"
      [] m.kind = "No digits found." -> "zero digits"
      [] m.kind = "Sheet number must be exactly 6 digits, found N digits." ->
            "fewer than 6 digits"
      [] m.kind = "Found N digits but sheet number format is incorrect." ->
            IF m.n > 6 THEN "more than 6 digits" ELSE "digits misplaced"
      [] OTHER -> "generic"

DigitCount(s) == Cardinality({i \in 1..Len(s) : IsDigit(s[i])})

\* whether the stem breaks the rule a case stands for
RuleViolated(case, stem) ==
    LET hasPattern == \E i \in 1..Len(stem) : PatternLenAt(stem, i) > 0
        first == CHOOSE i \in 1..Len(stem) :
                    /\ PatternLenAt(stem, i) > 0
                    /\ \A j \in 1..(i - 1) : PatternLenAt(stem, j) = 0
        before == SubSeq(stem, 1, first - 1)
        seam == SubSeq(before, 1, Len(before) - 1)
    IN  CASE case = "separator" -> \A i \in 1..Len(stem) : stem[i] # "_"
          [] case = "zero digits" -> DigitCount(stem) = 0
          [] case = "fewer than 6 digits" -> DigitCount(stem) \in 1..5
          [] case = "more than 6 digits" -> DigitCount(stem) > 6 /\ ~hasPattern
          [] case = "digits misplaced" -> DigitCount(stem) = 6 /\ ~hasPattern
          [] case = "seam missing" ->
                /\ hasPattern
                /\ \/ before = <<>>
                   \/ before[Len(before)] # "_"
                   \/ \A i \in 1..Len(seam) : seam[i] \in SpaceChars
          [] case = "seam invalid" ->
                /\ hasPattern
                /\ \E i \in 1..Len(seam) : ~IsAlnum(seam[i])
          [] OTHER -> FALSE

SixDigitSeamNames ==
    { <<"4", "3", "3", "8", "5", "7", "_">> \o s \o t \o <<".", "z", "i", "p">> :
        s \in { <<"4", "3", "3", "8", "5", "7">>,
                <<"4", "3", "_", "3", "8", "5", "7">>,
                <<"2", "6", "-", "9", "2", "8", "5">> },
        t \in { <<>>, <<"_">>, <<"_", "U", "p">>, <<"-", "2">> } }

\* names with an extension the Lambda validator does not strip: a_<sheet>.x
UnknownExtensionNames ==
    { <<"a", "_">> \o s \o <<".", "x">> :
        s \in { <<"4", "3", "3", "8", "5", "7">>,
                <<"4", "3", "_", "3", "8", "5", "7">>,
                <<"2", "6", "-", "9", "2", "8", "5">> } }

\* C9: the two parsers have different acceptance sets: the frontend parser
\* rejects every name with a six-digit seam that the Lambda validator
\* accepts, and accepts every a_<sheet>.x that the Lambda validator rejects.
C9_AcceptanceSetsDiffer ==
    (sheetResult # Unset /\ lambdaResult # UnsetLambda) =>
        /\ filename \in SixDigitSeamNames =>
              sheetResult = None /\ lambdaResult.is_valid
        /\ filename \in UnknownExtensionNames =>
              sheetResult # None /\ ~lambdaResult.is_valid

C9_Witness ==
    /\ filename \in SixDigitSeamNames
    /\ sheetResult = None
    /\ lambdaResult.is_valid

-----------------------------------------------------------------------------
(* validate_map_file claims                                                *)

\* the four corners of the image, transformed
TransformedCorners ==
    { <<transform[1].v * px + transform[3].v * py + transform[5].v,
        transform[2].v * px + transform[4].v * py + transform[6].v>> :
          px \in {0, dims[1]}, py \in {0, dims[2]} }

\* C1: validate_map_file returns valid = true with no warning only if (a)
\* the sheet number parsed from the filename equals the one
\* determine_sheet_number_from_coords computes from the image and its
\* transform, and (b) the min/max of the four transformed corners contain the
\* nominal bounds of the filename's sheet shrunk inward by 2 m on every side.
C1_ValidOnlyIfSheetAndBoundsAgree ==
    (pc = "done" /\ result.valid /\ result.warning = NoMsg) =>
        LET sheet == get_sheet_number_from_filename(filename)
            nominal == get_map_bounds(sheet, 0)
        IN  /\ sheet # None
            /\ sheet = determine_sheet_number_from_coords(dims[1], dims[2], transform)
            /\ \E c \in TransformedCorners : c[1] <= nominal.left + 2
            /\ \E c \in TransformedCorners : c[1] >= nominal.right - 2
            /\ \E c \in TransformedCorners : c[2] <= nominal.bottom + 2
            /\ \E c \in TransformedCorners : c[2] >= nominal.top - 2
            /\ nominal.right = nominal.left + 2000
            /\ nominal.top = nominal.bottom + 1000

\* a rotated image accepted as valid
C1_Witness ==
    /\ pc = "done"
    /\ result.valid
    /\ result.warning = NoMsg
    /\ transform[2].v # 0

IsMessage(m) == m.kind \notin {"None", "unset", ""}

\* C2: in every returned result exactly one of these holds: valid is true and
\* error is null, or valid is false and error is a non-empty message; a
\* non-null warning occurs only with valid = true and only for a .tif image.
C2_ValidXorError ==
    pc = "done" =>
        /\ \/ result.valid /\ result.error = NoMsg
           \/ ~result.valid /\ IsMessage(result.error)
        /\ result.warning # NoMsg =>
              /\ result.valid
              /\ Lower(Suffix(img_file)) = DotTif

\* the .tif path: valid with the warning
C2_Witness ==
    /\ pc = "done"
    /\ result.valid
    /\ result.warning # NoMsg
    /\ result.error = NoMsg

\* a step of validate_map_file has failed
StepFailed ==
    \/ get_sheet_number_from_filename(filename) = None
    \/ exc # "None"
    \/ scan = "raised"
    \/ /\ img_file # <<>>
       /\ Lower(Suffix(img_file)) = DotJpg
       /\ ~read_world_file(archive.jgwx, archive.jgw).ok

\* C4: validate_map_file never propagates an exception to its caller, and a
\* call in which a step failed (filename parsing, zip opening or extraction,
\* world-file reading, dimension reading, sheet-number computation) returns
\* valid = false with a non-empty error.
C4_FailuresAreReturned ==
    /\ pc # "propagated"
    /\ (pc = "done" /\ StepFailed) =>
          /\ ~result.valid
          /\ IsMessage(result.error)

\* math.ceil raised on a non-finite transform and the result was returned
C4_Witness ==
    /\ pc = "done"
    /\ exc \in {"ValueError", "OverflowError"}
    /\ result.error.kind = "Validation error:"

\* the stem has no seam before its first sheet number pattern: the pattern
\* starts the stem, or a single '_' is all that precedes it
NoSeamBeforePattern(name) ==
    /\ PatternSearch(RSplitDot(name)) > 0
    /\ TextBeforePattern(name) \in {<<>>, <<"_">>}

HasUnderscore(s) == \E i \in 1..Len(s) : s[i] = "_"

MissingSeamOutcome ==
    /\ get_sheet_number_from_filename(filename) = None
    /\ ~result.valid
    /\ result.error.kind \in {"Missing mandatory seam ID before sheet number.",
                              "Missing mandatory seam ID before underscore."}
    /\ result.filename_sheet_number = None

\* C8 as stated: any filename whose stem has no non-empty seam ID before the
\* first sheet number pattern is rejected by get_sheet_number_from_filename,
\* and validate_map_file returns valid = false with a missing-seam-ID error
\* and filename_sheet_number null.
C8_NoSeamGivesMissingSeamError ==
    (pc = "done" /\ NoSeamBeforePattern(filename)) => MissingSeamOutcome

\* C8: a filename whose stem contains '_' and has no non-empty seam ID before
\* the first sheet number pattern is rejected by
\* get_sheet_number_from_filename, and validate_map_file returns
\* valid = false with a missing-seam-ID error and filename_sheet_number null.
C8_NoSeamWithUnderscoreGivesMissingSeamError ==
    (/\ pc = "done"
     /\ NoSeamBeforePattern(filename)
     /\ HasUnderscore(RSplitDot(filename))) => MissingSeamOutcome

C8_Witness ==
    /\ pc = "done"
    /\ TextBeforePattern(filename) = <<"_">>
    /\ PatternSearch(RSplitDot(filename)) = 2
    /\ result.error.kind = "Missing mandatory seam ID before underscore."

\* the least multiple of 1000 that is >= v
LeastThousandAtLeast(v) == CHOOSE r \in v..(v + 999) : r % 1000 = 0

\* pixel (0, height) transformed
BottomLeft ==
    <<transform[3].v * dims[2] + transform[5].v,
      transform[4].v * dims[2] + transform[6].v>>

\* C10: determine_sheet_number_from_coords transforms pixel (0, height),
\* rounds x and y up to the least multiple of 1000 that is >= the coordinate
\* (an exact multiple of 1000 stays as it is), and returns
\* X[0] + Y[0] + X[1:3] + Y[1:3] for the decimal strings X, Y of the rounded
\* values.
C10_SheetFromRoundedBottomLeft ==
    result.actual_sheet_number # None =>
        LET X == IntToStr(LeastThousandAtLeast(BottomLeft[1]))
            Y == IntToStr(LeastThousandAtLeast(BottomLeft[2]))
        IN  result.actual_sheet_number =
                Slice(X, 0, 1) \o Slice(Y, 0, 1) \o Slice(X, 1, 3) \o Slice(Y, 1, 3)

\* both coordinates of the corner are exact multiples of 1000
C10_Witness ==
    /\ result.actual_sheet_number # None
    /\ BottomLeft[1] % 1000 = 0
    /\ BottomLeft[2] % 1000 = 0
    /\ result.actual_sheet_number = <<"4", "3", "3", "8", "5", "7">>

\* the archive of the worked example: a 10 x 10 image with ExampleWorld
IsExampleArchive ==
    /\ archive.jgwx = NoFile
    /\ archive.jgw = ExampleWorld
    /\ archive.image = JpegOf(10, 10)

\* C11 as stated: for the world file lines 100.0, 0.0, 0.0, -100.0, 500000.0,
\* 6000000.0 and a 10 x 10 image the bottom-left pixel transforms to
\* (500000, 5999000) and determine_sheet_number_from_coords returns "550509".
C11_ExampleGives550509 ==
    (IsExampleArchive /\ result.actual_sheet_number # None) =>
        /\ BottomLeft = <<500000, 5999000>>
        /\ result.actual_sheet_number = <<"5", "5", "0", "5", "0", "9">>

\* C11: for the world file lines 100.0, 0.0, 0.0, -100.0, 500000.0, 6000000.0
\* and a 10 x 10 image the bottom-left pixel transforms to (500000, 5999000),
\* both already multiples of 1000, and determine_sheet_number_from_coords
\* returns "550099".
C11_ExampleGives550099 ==
    (IsExampleArchive /\ result.actual_sheet_number # None) =>
        /\ BottomLeft = <<500000, 5999000>>
        /\ LeastThousandAtLeast(BottomLeft[1]) = 500000
        /\ LeastThousandAtLeast(BottomLeft[2]) = 5999000
        /\ result.actual_sheet_number = <<"5", "5", "0", "0", "9", "9">>

C11_Witness ==
    /\ IsExampleArchive
    /\ dims = <<10, 10>>
    /\ result.actual_sheet_number # None

\* C12: for every image size and every transform whose c and f are not both
\* inside (-5, 5), the sheet number determine_sheet_number_from_coords
\* computes has six digit characters, so get_map_bounds is defined on it, and
\* with no shrink the box it gives is 2000 wide and 1000 high.
C12_ComputedSheetHasMapBounds ==
    (/\ result.actual_sheet_number # None
     /\ ~(/\ 0 - 5 < transform[5].v /\ transform[5].v < 5
          /\ 0 - 5 < transform[6].v /\ transform[6].v < 5)) =>
        LET sheet == result.actual_sheet_number
        IN  /\ Len(sheet) = 6
            /\ \A i \in 1..6 : IsDigit(sheet[i])
            /\ get_map_bounds(sheet, 0).right - get_map_bounds(sheet, 0).left = 2000
            /\ get_map_bounds(sheet, 0).top - get_map_bounds(sheet, 0).bottom = 1000

\* the lines of the sidecar file read_world_file opens
LinesRead == IF archive.jgwx.exists THEN archive.jgwx.lines ELSE archive.jgw.lines

\* pixel (px, py) mapped with the file's lines: line 1 multiplies px into x,
\* line 2 px into y, line 3 py into x, line 4 py into y, lines 5 and 6 are
\* the translations
ByFileLines(px, py) ==
    <<LinesRead[1].v * px + LinesRead[3].v * py + LinesRead[5].v,
      LinesRead[2].v * px + LinesRead[4].v * py + LinesRead[6].v>>

CornersByFileLines == {ByFileLines(px, py) : px \in {0, dims[1]}, py \in {0, dims[2]}}

\* C13: read_world_file maps the six lines in file order to (a, d, b, e, c, f)
\* and apply_transform computes x = a*px + b*py + c, y = d*px + e*py + f: the
\* sheet number and the image bounds validate_map_file reports are those of
\* the pixels mapped with line 1 as px-to-x, line 2 as px-to-y, line 3 as
\* py-to-x, line 4 as py-to-y and lines 5, 6 as the translations.
C13_FileOrderIsADBECF ==
    /\ transform # NoTransform => transform = LinesRead
    /\ result.actual_sheet_number # None =>
          LET X == IntToStr(LeastThousandAtLeast(ByFileLines(0, dims[2])[1]))
              Y == IntToStr(LeastThousandAtLeast(ByFileLines(0, dims[2])[2]))
          IN  result.actual_sheet_number =
                Slice(X, 0, 1) \o Slice(Y, 0, 1) \o Slice(X, 1, 3) \o Slice(Y, 1, 3)
    /\ result.error.kind = "Image bounds do not contain expected map area for sheet" =>
          LET image_bounds == result.error.b[1]
          IN  /\ \A c \in CornersByFileLines :
                    /\ image_bounds.left <= c[1] /\ c[1] <= image_bounds.right
                    /\ image_bounds.bottom <= c[2] /\ c[2] <= image_bounds.top
              /\ \E c \in CornersByFileLines : c[1] = image_bounds.left
              /\ \E c \in CornersByFileLines : c[1] = image_bounds.right
              /\ \E c \in CornersByFileLines : c[2] = image_bounds.bottom
              /\ \E c \in CornersByFileLines : c[2] = image_bounds.top

\* a rotated image whose bounds were computed and reported
C13_Witness ==
    /\ result.error.kind = "Image bounds do not contain expected map area for sheet"
    /\ transform = LinesRead
    /\ LinesRead[2].v # 0
    /\ LinesRead[3].v # 0
    /\ LinesRead[2].v # LinesRead[3].v

\* a sidecar file exists, and the one read_world_file opens is not six lines
\* that each parse as a number
SidecarMalformed ==
    /\ archive.jgwx.exists \/ archive.jgw.exists
    /\ \/ Len(LinesRead) # 6
       \/ \E i \in 1..Len(LinesRead) : LinesRead[i].t = "text"

\* C14: when a sidecar file exists but is not exactly six lines that each
\* parse as a number (wrong line count, a non-numeric line, or an empty
\* file), validate_map_file returns valid = false with the invalid world file
\* format error, not the missing world file error, and computes no sheet
\* number.
C14_MalformedSidecarIsInvalidFormat ==
    (/\ pc = "done"
     /\ img_file # <<>>
     /\ Lower(Suffix(img_file)) = DotJpg
     /\ SidecarMalformed) =>
        /\ ~result.valid
        /\ result.error.kind = "Invalid world file format"
        /\ result.actual_sheet_number = None

-----------------------------------------------------------------------------
(* get_image_dimensions claims                                             *)

\* the offset of the start-of-frame marker of a stream that, from offset pos
\* on, is zero or more non-SOF segments (FF xx, a length L >= 2, L - 2 payload
\* bytes) and then FF C0, FF C1 or FF C2 with length, precision, height and
\* width in full; -1 when the stream is not of that form
RECURSIVE SofMarkerAt(_, _)
SofMarkerAt(bytes, pos) ==
    IF pos + 2 > Len(bytes) \/ bytes[pos + 1] # 255 THEN 0 - 1
    ELSE IF bytes[pos + 2] \in {192, 193, 194}
        THEN IF pos + 9 <= Len(bytes) THEN pos ELSE 0 - 1
    ELSE IF pos + 4 > Len(bytes) THEN 0 - 1
    ELSE LET L == 256 * bytes[pos + 3] + bytes[pos + 4]
         IN  IF L < 2 \/ pos + 2 + L > Len(bytes) THEN 0 - 1
             ELSE SofMarkerAt(bytes, pos + 2 + L)

StartsWithSOI == Len(jpgBytes) >= 2 /\ jpgBytes[1] = 255 /\ jpgBytes[2] = 216

\* C15: for a .jpg stream that starts with FF D8, continues with zero or
\* more well-formed non-SOF segments and then a start-of-frame marker with a
\* complete header, get_image_dimensions returns (width, height) with height
\* the big-endian 16-bit value 3 bytes after the marker and width the 16-bit
\* value after it; a stream that does not start with FF D8 fails as not a
\* JPEG.
C15_DimensionsFromFrameHeader ==
    (scan \in {"returned", "raised"} /\ Lower(Suffix(img_file)) = DotJpg) =>
        /\ (StartsWithSOI /\ SofMarkerAt(jpgBytes, 2) >= 0) =>
              LET sof == SofMarkerAt(jpgBytes, 2)
              IN  /\ scan = "returned"
                  /\ dims[2] = 256 * jpgBytes[sof + 6] + jpgBytes[sof + 7]
                  /\ dims[1] = 256 * jpgBytes[sof + 8] + jpgBytes[sof + 9]
        /\ ~StartsWithSOI =>
              /\ scan = "raised"
              /\ dimError.kind = "Not a valid JPEG file"

\* a 300 x 200 frame found behind two skipped segments
C15_Witness ==
    /\ scan = "returned"
    /\ StartsWithSOI
    /\ SofMarkerAt(jpgBytes, 2) = 14
    /\ dims = <<300, 200>>

\* C16: every (width, height) pair get_image_dimensions returns consists of
\* two positive integers, streams that end inside the start-of-frame segment
\* included.
C16_ReturnedDimensionsPositive ==
    scan = "returned" => dims[1] > 0 /\ dims[2] > 0

-----------------------------------------------------------------------------
(* validate_map_file claims: the guard, the archive, the image suffix      *)

\* -5 < v < 5 for a line of the world file (false for nan and inf)
NearOrigin(line) == line.t = "num" /\ 0 - 5 < line.v /\ line.v < 5

GuardError == "Georeferencing transformation is invalid (coordinates near origin)"

\* C17: for a .jpg image whose world file was read, validate_map_file returns
\* the near-origin error if and only if both -5 < c < 5 and -5 < f < 5; with
\* only one of them in the interval the guard is passed and the dimensions
\* are read; the guard comes after the world file is read and before the
\* image dimensions are read.
C17_OriginGuard ==
    /\ (pc = "done" /\ transform # NoTransform) =>
          /\ result.error.kind = GuardError
                <=> (NearOrigin(LinesRead[5]) /\ NearOrigin(LinesRead[6]))
          /\ ~(NearOrigin(LinesRead[5]) /\ NearOrigin(LinesRead[6])) =>
                scan \in {"returned", "raised"}
    /\ result.error.kind = GuardError =>
          /\ Lower(Suffix(img_file)) = DotJpg
          /\ transform = LinesRead
          /\ scan = "idle"
          /\ dims = NoDims

\* only c is near the origin: the guard is passed and the dimensions are read
C17_Witness ==
    /\ pc = "done"
    /\ transform # NoTransform
    /\ NearOrigin(LinesRead[5])
    /\ ~NearOrigin(LinesRead[6])
    /\ scan = "returned"
    /\ result.error.kind # GuardError

\* the final path component of a member ends in the given text
NameEndsWith(member, text) ==
    LET name == PathName(member)
    IN  /\ Len(name) >= Len(text)
        /\ SubSeq(name, Len(name) - Len(text) + 1, Len(name)) = text

\* the non-hidden members named *.jpg or *.tif, at any depth
NonHiddenImageMembers ==
    {m \in archive.members :
        /\ NameEndsWith(m, <<".", "j", "p", "g">>) \/ NameEndsWith(m, <<".", "t", "i", "f">>)
        /\ Head(PathName(m)) # "."}

\* C18: with a valid filename, an archive with no non-hidden .jpg/.tif member
\* yields the no-image error, one with more than one (.jpg and .tif counted
\* together, at any depth) yields the multiple-images error with their
\* number, and a file that is not a zip yields the invalid-zip error; in all
\* three cases valid = false and actual_sheet_number stays null.
C18_ArchiveErrors ==
    (pc = "done" /\ get_sheet_number_from_filename(filename) # None) =>
        /\ (archive.kind = "zip" /\ Cardinality(NonHiddenImageMembers) = 0) =>
              /\ result.error.kind = "No image files (.jpg or .tif) found in ZIP"
              /\ ~result.valid
              /\ result.actual_sheet_number = None
        /\ (archive.kind = "zip" /\ Cardinality(NonHiddenImageMembers) > 1) =>
              /\ result.error.kind = "Found N image files in ZIP. Expected exactly 1."
              /\ result.error.n = Cardinality(NonHiddenImageMembers)
              /\ ~result.valid
              /\ result.actual_sheet_number = None
        /\ archive.kind = "notzip" =>
              /\ result.error.kind = "Invalid ZIP file"
              /\ ~result.valid
              /\ result.actual_sheet_number = None

\* a .tif at the top and a .jpg in a directory are counted together
C18_Witness ==
    /\ pc = "done"
    /\ archive.kind = "zip"
    /\ archive.members = { <<"m", ".", "t", "i", "f">>,
                           <<"d", "/", "n", ".", "j", "p", "g">> }
    /\ result.error.kind = "Found N image files in ZIP. Expected exactly 1."
    /\ result.error.n = 2

\* the members whose name ends in .jpg or .tif whatever the case of its
\* letters, and does not begin with '.'
CaseInsensitiveImageMembers ==
    {m \in archive.members :
        /\ \/ NameEndsWith(Lower(m), <<".", "j", "p", "g">>)
           \/ NameEndsWith(Lower(m), <<".", "t", "i", "f">>)
        /\ Head(PathName(m)) # "."}

\* C19: archive members are recognised as images when their name ends in
\* .jpg or .tif compared case-insensitively, and members whose name begins
\* with '.' are never counted: the image validate_map_file works on, and its
\* no-image and multiple-images errors, follow that set of members.
C19_ImagesRecognisedCaseInsensitively ==
    (/\ pc = "done"
     /\ get_sheet_number_from_filename(filename) # None
     /\ archive.kind = "zip") =>
        /\ Cardinality(CaseInsensitiveImageMembers) = 0
              <=> result.error.kind = "No image files (.jpg or .tif) found in ZIP"
        /\ Cardinality(CaseInsensitiveImageMembers) > 1
              <=> result.error.kind = "Found N image files in ZIP. Expected exactly 1."
        /\ Cardinality(CaseInsensitiveImageMembers) = 1
              => img_file \in CaseInsensitiveImageMembers

TifWarning == "TIF file validation not yet implemented."

\* C20: when the archive's single image is a .tif, validate_map_file returns
\* valid = true with the TIFF-validation-not-implemented warning, error
\* null, filename_sheet_number set and actual_sheet_number null, and reads
\* neither a world file nor image dimensions, whatever the sidecar files
\* hold.
C20_TifAcceptedWithWarning ==
    (/\ pc = "done"
     /\ get_sheet_number_from_filename(filename) # None
     /\ archive.kind = "zip"
     /\ Cardinality(NonHiddenImageMembers) = 1
     /\ \A m \in NonHiddenImageMembers : NameEndsWith(m, <<".", "t", "i", "f">>)) =>
        /\ result.valid
        /\ result.warning.kind = TifWarning
        /\ result.error = NoMsg
        /\ result.filename_sheet_number = get_sheet_number_from_filename(filename)
        /\ result.actual_sheet_number = None
        /\ transform = NoTransform
        /\ scan = "idle"
        /\ dims = NoDims

\* a .tif next to a world file with a non-numeric line
C20_Witness ==
    /\ pc = "done"
    /\ archive.members = {MTif}
    /\ archive.jgwx.exists
    /\ \E i \in 1..Len(archive.jgwx.lines) : archive.jgwx.lines[i].t = "text"
    /\ result.valid
    /\ result.warning.kind = TifWarning

\* C21: when the archive's single raster member has an extension other than
\* .jpg or .tif (here the only member is a .png), validate_map_file returns
\* the unsupported-image-format error.
C21_OtherExtensionIsUnsupportedFormat ==
    (/\ pc = "done"
     /\ get_sheet_number_from_filename(filename) # None
     /\ archive.kind = "zip"
     /\ Cardinality(archive.members) = 1
     /\ \A m \in archive.members : Suffix(m) = <<".", "p", "n", "g">>) =>
        /\ ~result.valid
        /\ result.error.kind = "Unsupported image format:"

\* the step of validate_map_file an error message comes from: 1 filename
\* parse, 2 archive extraction, 3 image count, 4 world-file read, 5
\* near-origin guard, 6 dimension read, 7 sheet-number comparison, 8 bounds
\* containment; 0 for no error
StepOfError(m) ==
    CASE m = NoMsg -> 0
      [] m.kind \in {"Invalid ZIP file"} -> 2
      [] m.kind = "Validation error:" -> IF m.s = <<"RuntimeError">> THEN 2 ELSE 7
      [] m.kind \in {"No image files (.jpg or .tif) found in ZIP",
                     "Found N image files in ZIP. Expected exactly 1."} -> 3
      [] m.kind \in {"No world file (.jgw or .jgwx) found for georeferencing",
                     "Invalid world file format"} -> 4
      [] m.kind = GuardError -> 5
      [] m.kind = "Could not read image dimensions:" -> 6
      [] m.kind = "Sheet number validation failed" -> 7
      [] m.kind = "Image bounds do not contain expected map area for sheet" -> 8
      [] OTHER -> 1

\* what the input gives each of the first five steps to fail on
FilenameFails == get_sheet_number_from_filename(filename) = None
ExtractionFails == archive.kind # "zip"
ImageCountFails == Cardinality(NonHiddenImageMembers) # 1
SingleImageIsJpg == \A m \in NonHiddenImageMembers : NameEndsWith(m, <<".", "j", "p", "g">>)
WorldFileFails ==
    \/ ~(archive.jgwx.exists \/ archive.jgw.exists)
    \/ Len(LinesRead) # 6
    \/ \E i \in 1..Len(LinesRead) : LinesRead[i].t = "text"
GuardFails == NearOrigin(LinesRead[5]) /\ NearOrigin(LinesRead[6])

\* the earliest of the first five steps the input fails, 0 when it passes
\* them all or the image is a .tif
EarliestFailingStep ==
    IF FilenameFails THEN 1
    ELSE IF ExtractionFails THEN 2
    ELSE IF ImageCountFails THEN 3
    ELSE IF ~SingleImageIsJpg THEN 0
    ELSE IF WorldFileFails THEN 4
    ELSE IF GuardFails THEN 5
    ELSE 0

\* C22: validate_map_file runs filename parse, archive extraction, image
\* count, world-file read, near-origin guard, dimension read, sheet-number
\* comparison and bounds containment in that order and stops at the first
\* failing step: the error returned is that of the earliest failing step and
\* no later step has run (an invalid filename gives the filename error with
\* the archive unopened, whatever the archive holds).
C22_FirstFailingStepDecides ==
    pc = "done" =>
        LET step == StepOfError(result.error)
        IN  /\ EarliestFailingStep # 0 => step = EarliestFailingStep
            /\ EarliestFailingStep = 0 => step \in {0, 6, 7, 8}
            /\ step = 1 => result.error = get_filename_validation_error(filename)
            /\ step \in 1..3 => img_file = <<>>
            /\ step \in 1..4 => transform = NoTransform
            /\ step \in 1..5 => scan = "idle" /\ dims = NoDims
            /\ step \in 1..6 => result.actual_sheet_number = None
            /\ step = 6 => scan = "raised"
            /\ step \in 7..8 => scan = "returned"
            /\ step = 7 => result.error.b = <<>>
            /\ step = 8 => result.actual_sheet_number = result.filename_sheet_number

\* a rejected filename with an archive that is not a zip and holds no image
C22_Witness ==
    /\ pc = "done"
    /\ FilenameFails
    /\ ExtractionFails
    /\ ImageCountFails
    /\ StepOfError(result.error) = 1
    /\ img_file = <<>>

\* C23: on every path of validate_map_file that created the temporary
\* extraction directory (success, TIF warning, every error return, every
\* exception raised by the extraction or by a later check) the directory no
\* longer exists once the with block is left, hence when the function returns.
C23_TempDirRemovedOnReturn ==
    pc \in {"except", "done", "propagated"} => ~temp_dir

\* an exception raised by a check after the extraction, the directory created
\* and gone
C23_Witness ==
    /\ pc = "done"
    /\ result.filename_sheet_number # None
    /\ exc \in {"ValueError", "OverflowError"}
    /\ img_file # <<>>
    /\ ~temp_dir

\* C24: when the sheet number computed from the georeferencing differs from
\* the filename's, the result is invalid with both filename_sheet_number and
\* actual_sheet_number populated and an error naming both values, and the
\* bounds containment is not evaluated; when they are equal but the image
\* bounds do not contain the shrunk map bounds, the error reports both the
\* image bounds and the expected map bounds.
C24_MismatchAndContainmentErrors ==
    (pc = "done" /\ scan = "returned" /\ exc = "None") =>
        LET computed == determine_sheet_number_from_coords(dims[1], dims[2], transform)
            fromName == get_sheet_number_from_filename(filename)
        IN  IF computed # fromName
              THEN /\ ~result.valid
                   /\ result.filename_sheet_number = fromName
                   /\ result.actual_sheet_number = computed
                   /\ result.error = Msg("Sheet number validation failed", 0,
                                         PathName(img_file) \o <<"|">> \o fromName
                                         \o <<"|">> \o computed)
              ELSE /\ result.filename_sheet_number = fromName
                   /\ result.actual_sheet_number = computed
                   /\ LET map_bounds == get_map_bounds(fromName, 2)
                          image_bounds == get_image_bounds(dims[1], dims[2], transform)
                      IN  ~bounds_contains(image_bounds, map_bounds) =>
                              /\ ~result.valid
                              /\ result.error =
                                     MsgB("Image bounds do not contain expected map area for sheet",
                                          0, fromName, <<image_bounds, map_bounds>>)

\* a mismatch reported with both numbers
C24_Witness ==
    /\ pc = "done"
    /\ result.error.kind = "Sheet number validation failed"
    /\ result.filename_sheet_number # None
    /\ result.actual_sheet_number # None
    /\ result.actual_sheet_number # result.filename_sheet_number

\* equal sheet numbers, containment failed
C24_ContainmentCase ==
    /\ pc = "done"
    /\ result.error.kind = "Image bounds do not contain expected map area for sheet"
    /\ result.actual_sheet_number = result.filename_sheet_number

-----------------------------------------------------------------------------
(* main claims                                                             *)

\* C25: main exits with status 0 exactly when the validation result has
\* valid = true (the TIF warning included) and with 1 otherwise; with an
\* argument count other than 1 or 2, or a path that does not exist, it exits
\* 1 after printing a JSON error body and without running the validation.
C25_ExitStatus ==
    pc = "exited" =>
        /\ exit_code \in {0, 1}
        /\ exit_code = 0 <=> result.valid
        /\ IF Len(argv) - 1 \notin {1, 2} \/ ~path_exists
             THEN /\ exit_code = 1
                  /\ stdout[1] = "error"
                  /\ result = EmptyResult
                  /\ filename = <<>>
                  /\ ~temp_dir /\ img_file = <<>>
             ELSE /\ stdout = <<"result", result>>
                  /\ result # EmptyResult

\* a TIF archive accepted with the warning, exit status 0
C25_Witness ==
    /\ pc = "exited"
    /\ exit_code = 0
    /\ result.warning # NoMsg

\* a missing file: exit status 1, an error body, no validation
C25_MissingFile ==
    /\ pc = "exited"
    /\ Len(argv) = 3
    /\ ~path_exists
    /\ exit_code = 1

-----------------------------------------------------------------------------
(* Batch claims                                                            *)

\* the tasks whose increment returned counts that add up to the batch size
Observers ==
    {f \in DOMAIN tpc :
        /\ attrs[f].exists
        /\ attrs[f].processedCount + attrs[f].failedCount = job.batchSize}

StatusFor(processed, failed) ==
    IF failed = 0 THEN "COMPLETED"
    ELSE IF processed = 0 THEN "FAILED"
    ELSE "PARTIAL_SUCCESS"

\* C26: when the N tasks of a job with batchSize = N run in parallel and each
\* increments processedCount or failedCount once, in every interleaving
\* exactly one task observes processedCount + failedCount = N, and that task
\* sets the job status to COMPLETED if failedCount = 0, to FAILED if
\* processedCount = 0 and to PARTIAL_SUCCESS otherwise.
C26_OneTaskCompletesTheJob ==
    /\ Cardinality(Observers) <= 1
    /\ \A f \in DOMAIN tpc :
          /\ final_status[f] # "None" <=> f \in Observers
          /\ f \in Observers =>
                /\ job.processedCount + job.failedCount = job.batchSize
                /\ attrs[f].processedCount = job.processedCount
                /\ attrs[f].failedCount = job.failedCount
                /\ final_status[f] = StatusFor(job.processedCount, job.failedCount)
                /\ tpc[f] = "exited" => job.status = final_status[f]
    /\ (\A f \in DOMAIN tpc : tpc[f] = "exited") =>
          /\ Cardinality(Observers) = 1
          /\ job.status = StatusFor(job.processedCount, job.failedCount)

\* three tasks done, the last one a failure after a success
C26_Witness ==
    /\ \A f \in DOMAIN tpc : tpc[f] = "exited"
    /\ job.batchSize = Cardinality(DOMAIN tpc)
    /\ \E f \in Observers : attrs[f].failedCount > 0 /\ maps[f].status = "FAILED"
    /\ job.status = "PARTIAL_SUCCESS"

Rejected(f) == ~UploadVerdicts[uploads[f]].is_valid

\* the file has been handled to completion: its map is COMPLETED or FAILED,
\* after a rejection by input_handler or the work of a processor task
FileHandled(f) ==
    /\ maps[f].status \in {"COMPLETED", "FAILED"}
    /\ Rejected(f) \/ tpc[f] # "none"

AllFilesHandled == \A f \in Files : FileHandled(f)

JobTerminal == job.status \in {"COMPLETED", "FAILED", "PARTIAL_SUCCESS"}

Creators == {f \in Files : created[f] = "True"}

\* C28: when the input_handler invocations for the files of one batch call
\* create_or_get_job with the same jobId, exactly one call creates the job
\* item and returns True; every other call returns False and leaves the
\* item (processedCount, failedCount and batchSize included) as it was.
C28_OneCallCreatesTheJob ==
    /\ [](/\ Cardinality(Creators) <= 1
          /\ (\E f \in Files : created[f] # "none") =>
                /\ Cardinality(Creators) = 1
                /\ job.exists
                /\ job.batchSize = MaxFiles)
    /\ [][\A f \in Files :
             (created[f] = "none" /\ created'[f] = "False") => job' = job]_vars

\* a call that has just returned False on an item whose counter had advanced
C28_Witness ==
    \E i \in Invocations :
        /\ hpc[i] \in {"create_map", "put_failed_map"}
        /\ created[CurrentFile(i)] = "False"
        /\ job.processedCount = 1
        /\ Cardinality(Creators) = 1

\* C29: for an upload whose filename validate_filename rejects, input_handler
\* starts no ECS task and does not invoke the fallback Lambda; it records the
\* map as FAILED with an 'Invalid filename format' error message, appends a
\* FAILED record to its response and goes on with the next event record.
C29_RejectedUploadIsRecordedNotDispatched ==
    /\ \A f \in Files :
          Rejected(f) =>
              /\ ecs_tasks[f] = 0
              /\ tpc[f] = "none"
              /\ fallback_invocations[f] = 0
    /\ \A i \in Invocations :
          /\ Len(records[i]) = hidx[i] - 1
          /\ hpc[i] = "returned" <=> hidx[i] = Len(events[i]) + 1
          /\ \A r \in 1..Len(records[i]) :
                LET f == events[i][r]
                IN  Rejected(f) =>
                        /\ maps[f].status = "FAILED"
                        /\ maps[f].errorMessage.kind = "Invalid filename format:"
                        /\ records[i][r].file = f
                        /\ records[i][r].status = "FAILED"
                        /\ records[i][r].error.kind = "Invalid filename:"

\* an event of two records: the first rejected, the second dispatched
C29_Witness ==
    \E i \in Invocations :
        /\ Len(records[i]) = 2
        /\ Rejected(events[i][1])
        /\ records[i][1].status = "FAILED"
        /\ maps[events[i][1]].status = "FAILED"
        /\ records[i][2].status = "DISPATCHED"

\* invocation i finishes the record of a file with a valid name
FinishesValidRecord(i) ==
    /\ hidx'[i] = hidx[i] + 1
    /\ ~Rejected(CurrentFile(i))

\* C30: for an uploaded file with a valid filename whose job item was created
\* or found, input_handler dispatches the processing through exactly one
\* path: when launch_ecs_task returned True an ECS task runs and the fallback
\* Lambda is not invoked, when it returned False the fallback Lambda is
\* invoked exactly once; either way the job status and the map status are
\* then set to DISPATCHED.
C30_ExactlyOneDispatchPath ==
    [][\A i \in Invocations :
          FinishesValidRecord(i) =>
              LET f == CurrentFile(i)
              IN  /\ ecs_tasks'[f] + fallback_invocations'[f] = 1
                  /\ ecs_launched[i] => fallback_invocations'[f] = 0
                  /\ ~ecs_launched[i] => fallback_invocations'[f] = 1
                  /\ hpc[i] = "dispatch_map"
                  /\ maps'[f].status = "DISPATCHED"
                  /\ records'[i][hidx[i]].status = "DISPATCHED"]_vars

-----------------------------------------------------------------------------
(* The frontend parser against the Lambda validator, and the diagnostics   *)
(* against the parser                                                      *)

EndsWithZip(name) ==
    /\ Len(name) >= 4
    /\ SubSeq(name, Len(name) - 3, Len(name)) = <<".", "z", "i", "p">>

\* seam_id_clean of get_sheet_number_from_filename (lines 71-79)
FrontendSeamId(name) ==
    LET before == TextBeforePattern(name)
    IN  SubSeq(before, 1, Len(before) - 1)

\* C38: every filename ending in ".zip" that get_sheet_number_from_filename
\* accepts is accepted by validate_filename too, with the same six-digit
\* sheet number and the same seam ID.
C38_FrontendAcceptedZipIsLambdaAccepted ==
    (/\ sheetResult \notin {Unset, None}
     /\ lambdaResult # UnsetLambda
     /\ EndsWithZip(filename)) =>
        /\ lambdaResult.is_valid
        /\ lambdaResult.sheet_number = sheetResult
        /\ lambdaResult.seam_id = FrontendSeamId(filename)

\* an accepted .zip name in the separator format, with text after the sheet
C38_Witness ==
    /\ EndsWithZip(filename)
    /\ sheetResult \notin {Unset, None}
    /\ lambdaResult.is_valid
    /\ lambdaResult.sheet_number = sheetResult
    /\ \E k \in 1..Len(filename) : filename[k] = "-"

GenericFallback == "Invalid filename format:"

\* C39: the diagnostics follow the parser's checks in the parser's order:
\* when get_sheet_number_from_filename rejects the name, the error that
\* validate_map_file returns is the specific diagnostic
\* get_filename_validation_error stops at, never the generic fallback
\* "Invalid filename format"; the fallback would be reached exactly for the
\* names the parser accepts.
C39_GenericFallbackNeverReported ==
    /\ result.error.kind # GenericFallback
    /\ (get_sheet_number_from_filename(filename) = None) <=>
          (get_filename_validation_error(filename).kind # GenericFallback)
    /\ (pc = "done" /\ get_sheet_number_from_filename(filename) = None) =>
          /\ result.error = get_filename_validation_error(filename)
          /\ result.error.kind # GenericFallback

\* a rejected name whose seam fails the last of the parser's checks
C39_Witness ==
    /\ pc = "done"
    /\ get_sheet_number_from_filename(filename) = None
    /\ result.error.kind = "Invalid seam ID."

-----------------------------------------------------------------------------
(* The sidecar read_world_file takes                                       *)

\* what the sidecar that has precedence yields when it is the only one
ReadOfPreferredSidecar ==
    IF archive.jgwx.exists
        THEN read_world_file(archive.jgwx, NoFile)
        ELSE read_world_file(NoFile, archive.jgw)

\* C32: read_world_file uses the .jgwx sidecar whenever one exists and the
\* .jgw sidecar only when no .jgwx exists: the transform or the world-file
\* error of validate_map_file is the one the .jgwx file alone gives, whatever
\* the .jgw file holds.
C32_JgwxTakesPrecedence ==
    /\ transform # NoTransform =>
          /\ ReadOfPreferredSidecar.ok
          /\ transform = ReadOfPreferredSidecar.transform
    /\ StepOfError(result.error) = 4 =>
          /\ ~ReadOfPreferredSidecar.ok
          /\ result.error = ReadOfPreferredSidecar.error
    /\ archive.jgwx.exists =>
          \A w \in BadWorlds \cup SidecarPairWorlds :
              read_world_file(archive.jgwx, w) =
                  read_world_file(archive.jgwx, archive.jgw)

\* both sidecars present and readable with different transforms: the result
\* is the .jgwx file's
C32_Witness ==
    /\ pc = "done"
    /\ archive.jgwx.exists /\ archive.jgw.exists
    /\ read_world_file(NoFile, archive.jgw).ok
    /\ archive.jgwx.lines # archive.jgw.lines
    /\ transform = archive.jgwx.lines
    /\ result.valid

\* an unreadable .jgwx beside a readable .jgw: the error is the .jgwx file's
C32_UnreadableJgwx ==
    /\ pc = "done"
    /\ archive.jgwx.exists
    /\ read_world_file(NoFile, archive.jgw).ok
    /\ StepOfError(result.error) = 4

-----------------------------------------------------------------------------
(* Where the image of a valid result lies                                  *)

\* the lower-left corner of the nominal cell of the filename's sheet
\* d0 d1 d2 d3 d4 d5: left = 1000 * int(d0 d2 d3), bottom = 1000 * int(d1 d4 d5)
NominalLowerLeft ==
    LET d == get_sheet_number_from_filename(filename)
    IN  << 1000 * DigitsToInt(<<d[1], d[3], d[4]>>),
           1000 * DigitsToInt(<<d[2], d[5], d[6]>>) >>

\* C34: when validate_map_file returns valid = true without a warning, the
\* transformed bottom-left corner (x, y) of the image lies in the 1000 m cell
\* just below-left of the lower-left corner of the filename's sheet:
\* left - 1000 < x <= left and bottom - 1000 < y <= bottom.
C34_ValidImageCornerNearSheetCorner ==
    (pc = "done" /\ result.valid /\ result.warning = NoMsg) =>
        /\ NominalLowerLeft[1] - 1000 < BottomLeft[1]
        /\ BottomLeft[1] <= NominalLowerLeft[1]
        /\ NominalLowerLeft[2] - 1000 < BottomLeft[2]
        /\ BottomLeft[2] <= NominalLowerLeft[2]

-----------------------------------------------------------------------------
(* The job's status after the batch was completed                          *)

TerminalStatuses == {"COMPLETED", "FAILED", "PARTIAL_SUCCESS"}

\* a task saw the batch complete and has written the final status
BatchCompletedByTask ==
    \E f \in DOMAIN tpc : tpc[f] = "exited" /\ final_status[f] # "None"

\* C35: once the task that completed the batch has set the job's status to
\* COMPLETED, FAILED or PARTIAL_SUCCESS, no later write of an input_handler
\* invocation or of a processor task of the batch changes it to DISPATCHED or
\* PROCESSING, under every interleaving of the handler's post-launch status
\* write with the launched tasks.
C35_TerminalStatusIsNotOverwritten ==
    [][(BatchCompletedByTask /\ job.status \in TerminalStatuses) =>
          job'.status \notin {"DISPATCHED", "PROCESSING"}]_vars

-----------------------------------------------------------------------------
(* The two counters of a job                                               *)

\* C36: in every reachable state of a job processed by the ECS processor
\* processedCount + failedCount <= batchSize, and a task run that has ended
\* has made exactly one increment, to exactly one of the two counters; this
\* also when a DynamoDB write fails inside increment_processed_count after
\* the counter was incremented.
C36_CountersBoundedOneIncrementPerTask ==
    /\ job.processedCount + job.failedCount <= job.batchSize
    /\ \A f \in DOMAIN tpc :
          tpc[f] = "exited" =>
              increments[f].processedCount + increments[f].failedCount = 1

-----------------------------------------------------------------------------
(* What COMPLETED means                                                    *)

\* C37: whenever the job's status is COMPLETED, every one of its batchSize
\* maps was processed successfully: processedCount = batchSize and
\* failedCount = 0, whichever of the ECS processor, the fallback Lambda and
\* output_handler wrote the status.
C37_CompletedMeansAllProcessed ==
    job.status = "COMPLETED" =>
        /\ job.processedCount = job.batchSize
        /\ job.failedCount = 0

-----------------------------------------------------------------------------
(* Map item claims                                                         *)

\* the uploads create_map_entry has written the item for
EntryWritten == {u \in Uploads : via[u] # "none"}

\* the retry counter as a reader sees it: 0 while the attribute is absent
RetryCountOrZero(it) == IF it.hasRetryCount THEN it.retryCount ELSE 0

\* C31: create_map_entry on a (mapId, mapName) that already has an item
\* updates that item: status becomes QUEUED, jobId the new job's id,
\* retryCount grows by exactly 1 (from 0 when absent), errorMessage is
\* removed and the rest of the item stays; so once create_map_entry has run
\* for the first upload and k re-uploads of the map, retryCount is k (absent
\* while k = 0). DynamoDB accepts the update_item.
C31_RetryUpdatesExistingEntry ==
    /\ [](EntryWritten # {} =>
            /\ map_item.exists
            /\ map_item.hasRetryCount = (Cardinality(EntryWritten) > 1)
            /\ RetryCountOrZero(map_item) = Cardinality(EntryWritten) - 1)
    /\ [][\A u \in Uploads :
            (via[u] = "none" /\ via'[u] = "updated") =>
                /\ map_item.exists
                /\ map_item'.exists
                /\ map_item'.status = "QUEUED"
                /\ map_item'.jobId = u
                /\ map_item'.hasRetryCount
                /\ map_item'.retryCount = RetryCountOrZero(map_item) + 1
                /\ map_item'.errorMessage = NoMsg
                /\ map_item'.createdAt = map_item.createdAt
                /\ map_item'.taskStartedAt = map_item.taskStartedAt
                /\ map_item'.taskStoppedAt = map_item.taskStoppedAt
                /\ map_item'.taskArn = map_item.taskArn]_vars

\* the map has been uploaded three times, the second attempt failed in its
\* task, and create_map_entry has just updated the item for the third
C31_Witness ==
    /\ via[1] = "created"
    /\ via[2] = "updated"
    /\ via[3] = "updated"
    /\ mjob[2] = "FAILED"
    /\ upc[3] = "launch"
    /\ map_item.status = "QUEUED"
    /\ map_item.jobId = 3
    /\ map_item.retryCount = 2
    /\ map_item.errorMessage = NoMsg

\* the event gets as far as update_item and update_item succeeds
ReachesUpdate(event) ==
    /\ event.detail
    /\ event.arns
    /\ event.found
    /\ event.lastStatus \in {"RUNNING", "STOPPED"}
    /\ event.write_ok

\* C33: an invocation of ecs_state_handler changes no job record and, of
\* the map item, neither status nor any other field than the timing ones:
\* for lastStatus RUNNING it sets taskStartedAt, for STOPPED taskStoppedAt,
\* each together with updatedAt and taskArn and leaving the other of the
\* two alone; for any other lastStatus, and when it returns before the
\* update or the update fails, the item is left as it was.
C33_StateHandlerOnlyRecordsTiming ==
    [][last_event' # NoEvent =>
          /\ mjob' = mjob
          /\ map_item'.exists = map_item.exists
          /\ map_item'.status = map_item.status
          /\ map_item'.jobId = map_item.jobId
          /\ map_item'.createdAt = map_item.createdAt
          /\ map_item'.hasRetryCount = map_item.hasRetryCount
          /\ map_item'.retryCount = map_item.retryCount
          /\ map_item'.errorMessage = map_item.errorMessage
          /\ IF ReachesUpdate(last_event')
               THEN /\ map_item'.updatedAt = StateChangeTime
                    /\ map_item'.taskArn \in Uploads
                    /\ mtpc[map_item'.taskArn] # "none"
                    /\ IF last_event'.lastStatus = "RUNNING"
                         THEN /\ map_item'.taskStartedAt = StateChangeTime
                              /\ map_item'.taskStoppedAt = map_item.taskStoppedAt
                         ELSE /\ map_item'.taskStoppedAt = StateChangeTime
                              /\ map_item'.taskStartedAt = map_item.taskStartedAt
               ELSE map_item' = map_item]_vars

\* the handler has just recorded the stop of the task of the second upload,
\* after recording a start, on an item whose status is FAILED
C33_Witness ==
    /\ last_event = EcsEvent(TRUE, TRUE, TRUE, "STOPPED", TRUE)
    /\ map_item.taskStoppedAt = StateChangeTime
    /\ map_item.taskStartedAt = StateChangeTime
    /\ map_item.updatedAt = StateChangeTime
    /\ map_item.taskArn = 2
    /\ map_item.status = "FAILED"
    /\ mjob[2] = "FAILED"

====
